---------------------------- MODULE Spec2Model ----------------------------
(***************************************************************************)
(* Model of the autotype key-injection engine of pwsafe                    *)
(* (src/os/linux/xsendstring.cpp): pws_os::SendString / DoSendString, the  *)
(* X error handler, the two injection strategies and the connection scope. *)
(* One call runs at a time; the X server (keyboard layout, input focus,    *)
(* XTEST capability, protocol errors) is the environment.                  *)
(***************************************************************************)
EXTENDS Integers, Sequences, FiniteSets, TLC

\* ------------------------------------------------------------------ bounds
MaxLen == 3
MaxErrors == 1
MaxFocusMoves == 1

\* ------------------------------------------------- X11 protocol constants
NoSymbol == 0
XK_Tab == 65289
XK_Return == 65293
XK_Linefeed == 65290
XK_BackSpace == 65288
XK_Delete == 65535
XK_Escape == 65307
XK_Shift_L == 65505
XK_Mode_switch == 65406
XK_ISO_Level3_Shift == 65027
ShiftMask == 1
Mod1MapIndex == 3
VT == 11
BadValue == 2
BadWindow == 3
X_SendEvent == 25
XTestMajorOpcode == 132

\* ------------------------------------------------------------ input sets
\* vertical tab, 'a', 'A', U+0001 (no keysym), U+00E9 (keysym, no keycode)
Chars == {VT, 97, 65, 1, 233}
Strings == UNION {[1..n -> Chars] : n \in 0..MaxLen}
Methods == {"ATMETHOD_AUTO", "ATMETHOD_XSENDKEYS"}
Delays == {0, 10}
Windows == {1, 2}
\* window names are interchangeable: the window the user has focused when a
\* call starts is named TargetWindow
TargetWindow == 1
AppHandlers == {"default", "app"}

\* -------------------------------------------------- the server's keyboard
\* keycode -> the keysyms it produces, indexed by modifier combination
Keymap == (38 :> <<97, 65>>) @@ (23 :> <<XK_Tab>>) @@ (50 :> <<XK_Shift_L>>)
            @@ (92 :> <<XK_ISO_Level3_Shift>>)
            @@ (65 :> <<32>>) @@ (10 :> <<49, 33, 49, 33>>)
            @@ (24 :> <<113, 81, 64, 937, 8364>>)
            @@ (93 :> <<XK_Mode_switch>>)
            @@ (94 :> <<XK_Mode_switch, XK_ISO_Level3_Shift>>)
\* modifier map: 8 rows (Shift, Lock, Control, Mod1..Mod5) of max_keypermod codes
max_keypermod == 1
Modmap == <<50, 0, 0, 0, 0, 0, 0, 92>>

RECURSIVE BitOr(_, _)
BitOr(a, b) ==
  IF a = 0 THEN b
  ELSE IF b = 0 THEN a
  ELSE (IF (a % 2 = 1) \/ (b % 2 = 1) THEN 1 ELSE 0) + 2 * BitOr(a \div 2, b \div 2)

BitAnd(a, m) == IF (a \div m) % 2 = 1 THEN m ELSE 0

SetMin(S) == CHOOSE x \in S : \A y \in S : x <= y

SeqContains(s, x) == \E i \in 1..Len(s) : s[i] = x

XGetKeyboardMapping(kc) == IF kc \in DOMAIN Keymap THEN Keymap[kc] ELSE <<>>

\* Xlib scans column by column, keycode by keycode; 0 when no key holds sym
XKeysymToKeycode(sym) ==
  LET hits == {<<j, kc>> \in (1..8) \X DOMAIN Keymap :
                  j <= Len(Keymap[kc]) /\ Keymap[kc][j] = sym}
      col  == SetMin({h[1] : h \in hits})
  IN IF hits = {} THEN 0 ELSE SetMin({h[2] : h \in {g \in hits : g[1] = col}})

\* ---------------------------------------------------- pure code functions
\* the Unicode-to-keysym table: two of its entries (U+0104 -> Aogonek,
\* U+20AC -> EuroSign); NoSymbol for a code point the table does not hold
unicode2keysym(wc) ==
  CASE wc = 260 -> 417
    [] wc = 8364 -> 8364
    [] OTHER -> NoSymbol

\* mutant: every code point is encoded as a Unicode keysym
wchar2keysym_allUnicode(wc) ==
  IF wc > 1114111 \/ wc < 0 THEN NoSymbol ELSE BitOr(wc, 16777216)

\* mutant: the Unicode table is never consulted
wchar2keysym_noTable(wc) ==
  IF wc < 256 THEN
    IF wc >= 32 THEN wc
    ELSE CASE wc = 9  -> XK_Tab
           [] wc = 13 -> XK_Return
           [] wc = 10 -> XK_Linefeed
           [] wc = 8  -> XK_BackSpace
           [] wc = 27 -> XK_Escape
           [] OTHER -> NoSymbol
  ELSE IF wc > 1114111 THEN NoSymbol
  ELSE BitOr(wc, 16777216)

wchar2keysym(wc) ==
  IF wc < 256 THEN
    IF wc >= 32 THEN wc
    ELSE CASE wc = 9  -> XK_Tab
           [] wc = 13 -> XK_Return
           [] wc = 10 -> XK_Linefeed
           [] wc = 8  -> XK_BackSpace
           [] wc = 127 -> XK_Delete
           [] wc = 27 -> XK_Escape
           [] OTHER -> NoSymbol
  ELSE IF wc > 1114111 \/ (wc > 126 /\ wc < 160) THEN NoSymbol
  ELSE IF unicode2keysym(wc) # NoSymbol THEN unicode2keysym(wc)
  ELSE BitOr(wc, 16777216)

\* FindModifierMask on a server whose modifier map is modmap
FindModifierMaskOn(modmap, sym) ==
  LET hits == {i \in (Mod1MapIndex * max_keypermod)..(8 * max_keypermod - 1) :
                 /\ modmap[i + 1] # 0
                 /\ SeqContains(XGetKeyboardMapping(modmap[i + 1]), sym)}
  IN IF hits = {} THEN 0 ELSE SetMin(hits) \div max_keypermod

FindModifierMask(sym) == FindModifierMaskOn(Modmap, sym)

\* mutant: the extra combinations are added whether or not the bit is there
ExtendMasksOn_always(modmap, masks, s) ==
  LET modshift == FindModifierMaskOn(modmap, s)
  IN IF modshift # 0
     THEN masks \o [i \in 1..Len(masks) |-> BitOr(masks[i], 2 ^ modshift)]
     ELSE masks

\* one round of the loop over {XK_Mode_switch, XK_ISO_Level3_Shift}
ExtendMasksOn(modmap, masks, s) ==
  LET modshift == FindModifierMaskOn(modmap, s)
  IN IF modshift # 0 /\ ~SeqContains(masks, 2 ^ modshift)
     THEN masks \o [i \in 1..Len(masks) |-> BitOr(masks[i], 2 ^ modshift)]
     ELSE masks

ExtendMasks(masks, s) == ExtendMasksOn(Modmap, masks, s)

\* the vector masks of CalcModifiersForKeysym on a server whose modifier map
\* is modmap
CandidateMasksOn(modmap) ==
  ExtendMasksOn(modmap, ExtendMasksOn(modmap, <<0, ShiftMask>>, XK_Mode_switch),
                XK_ISO_Level3_Shift)

CandidateMasks == CandidateMasksOn(Modmap)

\* mutant: the last matching index is used instead of the first
CalcModifiersForKeysym_lastMatch(code, sym) ==
  LET symlist == XGetKeyboardMapping(code)
      masks == CandidateMasks
      max_keysym_index == IF Len(masks) < Len(symlist) THEN Len(masks) ELSE Len(symlist)
      found == {i \in 1..max_keysym_index : symlist[i] = sym}
  IN IF Len(symlist) > 0 /\ found # {}
     THEN masks[CHOOSE i \in found : \A j \in found : j <= i] ELSE 0

CalcModifiersForKeysym(code, sym) ==
  LET symlist == XGetKeyboardMapping(code)
      masks == CandidateMasks
      max_keysym_index == IF Len(masks) < Len(symlist) THEN Len(masks) ELSE Len(symlist)
      found == {i \in 1..max_keysym_index : symlist[i] = sym}
  IN IF Len(symlist) > 0 /\ found # {} THEN masks[SetMin(found)] ELSE 0


\* ------------------------------------------------------------------ state
VARIABLES
  pc,              \* position of the current call
  str, method, delayMS,   \* the arguments of the current call
  srcIter,         \* index of the next character of the resolution pass
  keypresses,      \* the KeyPressInfoVector built by the resolution pass
  itr,             \* index of the next keypress of the injection pass
  useXTEST,        \* the strategy chosen by the current call
  atGlobals,       \* the file-scope error slot (flag + text)
  handler,         \* the process-wide X error handler
  display,         \* event.display: "NULL", "open" or "closed"
  window,          \* event.window, set by XGetInputFocus
  focus,           \* the window holding input focus on the server
  xtestAdvertised, \* whether the server reached in this call advertises XTEST
  UseXTest_static, \* the function-local statics of UseXTest
  pending,         \* errors raised by the server, not yet read by Xlib
  xlog,            \* the Xlib calls of the current call, in order
  result,          \* what SendString handed to its caller
  priorHandler,    \* the handler installed when the call began
  errs, moves,     \* environment events of the current call
  closes,          \* XCloseDisplay calls of the current call
  openConns,       \* connections opened by the engine and not yet closed
  stray,           \* errors of this call delivered to another handler
  injectErr,       \* ErrorHandler ran during the injection pass
  entryFlag,       \* the error flag the current call found set on entry
  fn,              \* a pure function of the engine, its argument and its value
  dlg,             \* the master-phrase dialog of the secure desktop
  thr,             \* the secure desktop's thread, CSDThread::ThreadProc
  mac,             \* one HMAC object and the calls made on it
  tmr              \* the dialog thread and the timer thread of the secure desktop

vars == <<pc, str, method, delayMS, srcIter, keypresses, itr, useXTEST, atGlobals,
          handler, display, window, focus, xtestAdvertised, UseXTest_static,
          pending, xlog, result, priorHandler, errs, moves, closes, openConns,
          stray, injectErr, entryFlag, fn, dlg, thr, mac, tmr>>

\* what the engine's call never touches
otherVars == <<fn, dlg, thr, mac, tmr>>

\* the state of the autotype engine and of its X server
engineVars == <<pc, str, method, delayMS, srcIter, keypresses, itr, useXTEST,
                atGlobals, handler, display, window, focus, xtestAdvertised,
                UseXTest_static, pending, xlog, result, priorHandler, errs, moves,
                closes, openConns, stray, injectErr, entryFlag>>

callArgs == <<str, method, delayMS>>
envVars == <<errs, moves>>

NoText == [kind |-> "", a |-> 0, b |-> 0]
NoFn == [name |-> "", arg |-> <<>>, value |-> 0, done |-> FALSE]
\* the four passphrase edit fields of the master-phrase dialogs
EditControls == {"IDC_PASSKEY", "IDC_NEWPASSKEY", "IDC_VERIFY", "IDC_CONFIRMNEW"}
NoWParam == [id |-> "", code |-> ""]
\* the dialog before its first message: selfMPProc is NULL, no edit field has
\* had the focus, nothing was typed
NoDlg == [selfMPProc |-> FALSE, m_iLastFocus |-> "none",
          m_bMPWindowBeingShown |-> FALSE, m_dwRC |-> "none",
          edits |-> [c \in EditControls |-> 0],
          uMsg |-> "", wParam |-> NoWParam, inserted |-> FALSE, ret |-> FALSE]
\* GetMasterPhrase::clear(): no phrase entered, both phrases empty
NoPhrase == [sPhrase |-> 0, bPhraseEntered |-> FALSE,
             sNewPhrase |-> 0, bNewPhraseEntered |-> FALSE]
\* what case IDOK read from the edit fields and was answered, before any OK
NoRead == [sxPassKey |-> 0, sxNewPassKey1 |-> 0, sxNewPassKey2 |-> 0,
           rc |-> "", weak |-> FALSE, answer |-> ""]
\* the thread object after its constructor: InitInstance cleared the shared
\* result and the progress flags; no desktop call was made, nothing is held
NoThr == [pc |-> "start", step |-> 1, m_wDialogID |-> "IDD_SDGETPHRASE",
          xFlags |-> {}, m_dwRC |-> "none", m_pGMP |-> NoPhrase,
          quit |-> FALSE, calls |-> <<>>, held |-> {}, released |-> <<>>,
          exit |-> "none", ret |-> "none", cmd |-> "", read |-> NoRead]
\* the thread object before its dialog exists: no timer, TimerProc told to do
\* nothing, no window shown, no callback running
NoTmr == [pc |-> "CreateDialogParam", m_bUseSecureDesktop |-> FALSE,
          m_hTimer |-> "NULL", m_bDoTimerProcAction |-> FALSE,
          m_bMPWindowBeingShown |-> FALSE, hEvent |-> "NULL",
          queued |-> FALSE, deleted |-> FALSE, cb |-> "none",
          touched |-> {}]
\* no HMAC object yet
NoMac == [K |-> <<>>, Hash |-> <<>>, digest |-> <<>>, key |-> <<>>, keyed |-> FALSE,
          data |-> <<>>, last |-> "", ops |-> 0, reinit |-> FALSE]
NoError == [error_detected |-> FALSE, errorString |-> NoText]

Req(op, keycode, press, state, win, sym) ==
  [op |-> op, keycode |-> keycode, press |-> press, state |-> state,
   window |-> win, sym |-> sym]

Call0(op) == Req(op, 0, 0, 0, 0, 0)

InitEngine ==
  /\ pc = "idle"
  /\ str = <<>> /\ method = "ATMETHOD_AUTO" /\ delayMS = 0
  /\ srcIter = 1 /\ keypresses = <<>> /\ itr = 1 /\ useXTEST = FALSE
  /\ atGlobals = NoError
  /\ handler = "default"
  /\ display = "NULL" /\ window = 0
  /\ focus = TargetWindow
  /\ xtestAdvertised = FALSE
  /\ UseXTest_static = [checked |-> 0, useXTest |-> FALSE]
  /\ pending = <<>> /\ xlog = <<>>
  /\ result = [status |-> "none", what |-> NoText]
  /\ priorHandler = "default"
  /\ errs = 0 /\ moves = 0 /\ closes = 0 /\ openConns = 0 /\ stray = 0
  /\ injectErr = FALSE
  /\ entryFlag = FALSE

Init == InitEngine /\ fn = NoFn /\ dlg = NoDlg /\ thr = NoThr /\ mac = NoMac /\ tmr = NoTmr

\* mutant: the error slot is not cleared when a call begins
ClearedAtEntry_keeps(g) == g

\* error_detected = false; errorString[0] = 0 (SendString and DoSendString)
ClearedAtEntry(g) == NoError

\* pws_os::SendString entry and the first lines of DoSendString
SendString(s, m, d) ==
  /\ pc = "idle"
  /\ pc' = "open"
  /\ str' = s /\ method' = m /\ delayMS' = d
  /\ atGlobals' = ClearedAtEntry(atGlobals)
  /\ srcIter' = 1 /\ keypresses' = <<>> /\ itr' = 1 /\ useXTEST' = FALSE
  /\ display' = "NULL" /\ window' = 0
  /\ pending' = <<>> /\ xlog' = <<>>
  /\ result' = [status |-> "none", what |-> NoText]
  /\ priorHandler' = handler
  /\ errs' = 0 /\ moves' = 0 /\ closes' = 0 /\ stray' = 0 /\ injectErr' = FALSE
  /\ UNCHANGED <<handler, focus, xtestAdvertised, UseXTest_static, openConns>>
  /\ UNCHANGED otherVars

\* AutotypeEvent::AutotypeEvent, XOpenDisplay succeeded
OpenDisplay ==
  /\ pc = "open"
  /\ display' = "open"
  /\ window' = focus
  /\ openConns' = openConns + 1
  /\ xlog' = xlog \o <<Call0("XOpenDisplay"), Req("XGetInputFocus", 0, 0, 0, focus, 0)>>
  /\ pc' = "resolve"
  /\ UNCHANGED <<callArgs, srcIter, keypresses, itr, useXTEST, atGlobals, handler,
                 focus, xtestAdvertised, UseXTest_static, pending, result,
                 priorHandler, envVars, closes, stray, injectErr>>
  /\ UNCHANGED <<entryFlag, fn, dlg, thr, mac, tmr>>

OpenFailText(g) ==
  [error_detected |-> TRUE,
   errorString |-> IF g.errorString = NoText
                   THEN [kind |-> "open", a |-> 0, b |-> 0] ELSE g.errorString]

\* XOpenDisplay returned NULL: DoSendString throws, ~AutotypeEvent closes nothing
OpenDisplayFails ==
  /\ pc = "open"
  /\ xlog' = Append(xlog, Call0("XOpenDisplay"))
  /\ atGlobals' = OpenFailText(atGlobals)
  /\ result' = [status |-> "failure", what |-> atGlobals'.errorString]
  /\ pc' = "done"
  /\ UNCHANGED <<callArgs, srcIter, keypresses, itr, useXTEST, handler, display,
                 window, focus, xtestAdvertised, UseXTest_static, pending,
                 priorHandler, envVars, closes, openConns, stray, injectErr>>
  /\ UNCHANGED <<entryFlag, fn, dlg, thr, mac, tmr>>


\* ------------------------------------------------------ resolution pass
\* mutant: a character without a keysym is dropped instead of aborting the call
ConvertChar_dropsUnmappable(c) ==
  LET sym  == wchar2keysym(c)
      code == XKeysymToKeycode(sym)
  IN IF c = VT \/ sym = NoSymbol
     THEN [what |-> "skip", keypress |-> [code |-> 0, state |-> 0], text |-> NoText]
     ELSE IF code # 0
          THEN [what |-> "push",
                keypress |-> [code |-> code,
                              state |-> BitOr(0, CalcModifiersForKeysym(code, sym))],
                text |-> NoText]
          ELSE [what |-> "nokeycode", keypress |-> [code |-> 0, state |-> 0],
                text |-> [kind |-> "keycode", a |-> c, b |-> sym]]

\* mutant: the vertical tab is not filtered and goes through the conversion
ConvertChar_noVTFilter(c) ==
  LET sym  == wchar2keysym(c)
      code == XKeysymToKeycode(sym)
  IN IF sym # NoSymbol
     THEN IF code # 0
          THEN [what |-> "push",
                keypress |-> [code |-> code,
                              state |-> BitOr(0, CalcModifiersForKeysym(code, sym))],
                text |-> NoText]
          ELSE [what |-> "nokeycode", keypress |-> [code |-> 0, state |-> 0],
                text |-> [kind |-> "keycode", a |-> c, b |-> sym]]
     ELSE [what |-> "nokeysym", keypress |-> [code |-> 0, state |-> 0],
           text |-> [kind |-> "keysym", a |-> c, b |-> 0]]

\* One iteration of the conversion loop of DoSendString on character c:
\* what it does ("skip", "push", "nokeycode", "nokeysym"), the keypress it
\* pushes and the error text it writes.
\* mutant: a character whose symbol no candidate position holds fails the call
ConvertChar_failsUnmatched(c) ==
  LET sym  == wchar2keysym(c)
      code == XKeysymToKeycode(sym)
      symlist == XGetKeyboardMapping(code)
      matched == \E i \in 1..Len(CandidateMasks) : i <= Len(symlist) /\ symlist[i] = sym
  IN IF c = VT
     THEN [what |-> "skip", keypress |-> [code |-> 0, state |-> 0], text |-> NoText]
     ELSE IF sym # NoSymbol
     THEN IF code # 0 /\ matched
          THEN [what |-> "push",
                keypress |-> [code |-> code,
                              state |-> BitOr(0, CalcModifiersForKeysym(code, sym))],
                text |-> NoText]
          ELSE [what |-> "nokeycode", keypress |-> [code |-> 0, state |-> 0],
                text |-> [kind |-> "keycode", a |-> c, b |-> sym]]
     ELSE [what |-> "nokeysym", keypress |-> [code |-> 0, state |-> 0],
           text |-> [kind |-> "keysym", a |-> c, b |-> 0]]

ConvertChar(c) ==
  LET sym  == wchar2keysym(c)
      code == XKeysymToKeycode(sym)
  IN IF c = VT
     THEN [what |-> "skip", keypress |-> [code |-> 0, state |-> 0], text |-> NoText]
     ELSE IF sym # NoSymbol
     THEN IF code # 0
          THEN [what |-> "push",
                keypress |-> [code |-> code,
                              state |-> BitOr(0, CalcModifiersForKeysym(code, sym))],
                text |-> NoText]
          ELSE [what |-> "nokeycode", keypress |-> [code |-> 0, state |-> 0],
                text |-> [kind |-> "keycode", a |-> c, b |-> sym]]
     ELSE [what |-> "nokeysym", keypress |-> [code |-> 0, state |-> 0],
           text |-> [kind |-> "keysym", a |-> c, b |-> 0]]

\* the whole conversion loop on s, started with the keypresses acc
RECURSIVE Resolve(_, _)
Resolve(s, acc) ==
  IF s = <<>> THEN [ok |-> TRUE, keypresses |-> acc, text |-> NoText]
  ELSE LET r == ConvertChar(Head(s)) IN
    CASE r.what = "skip" -> Resolve(Tail(s), acc)
      [] r.what = "push" -> Resolve(Tail(s), Append(acc, r.keypress))
      [] OTHER -> [ok |-> FALSE, keypresses |-> acc, text |-> r.text]

ResolveFrame ==
  UNCHANGED <<entryFlag, fn, dlg, thr, mac, tmr, callArgs, itr, useXTEST, handler, display, window, focus,
              xtestAdvertised, UseXTest_static, pending, result, priorHandler,
              envVars, closes, openConns, stray, injectErr>>

\* the vertical tab is thrown away
SkipVerticalTab ==
  /\ pc = "resolve" /\ srcIter <= Len(str)
  /\ ConvertChar(str[srcIter]).what = "skip"
  /\ srcIter' = srcIter + 1
  /\ UNCHANGED <<pc, keypresses, atGlobals, xlog>>
  /\ ResolveFrame

\* keysym and keycode found: the keypress is pushed
ResolveKey ==
  /\ pc = "resolve" /\ srcIter <= Len(str)
  /\ LET r == ConvertChar(str[srcIter]) IN
       /\ r.what = "push"
       /\ keypresses' = Append(keypresses, r.keypress)
       /\ xlog' = Append(xlog, Req("XKeysymToKeycode", r.keypress.code, 0, 0, 0,
                                   wchar2keysym(str[srcIter])))
  /\ srcIter' = srcIter + 1
  /\ UNCHANGED <<pc, atGlobals>>
  /\ ResolveFrame

\* XKeysymToKeycode returned 0: the error is recorded and DoSendString returns
NoKeycode ==
  /\ pc = "resolve" /\ srcIter <= Len(str)
  /\ LET r == ConvertChar(str[srcIter]) IN
       /\ r.what = "nokeycode"
       /\ atGlobals' = [error_detected |-> TRUE, errorString |-> r.text]
       /\ xlog' = Append(xlog, Req("XKeysymToKeycode", 0, 0, 0, 0,
                                   wchar2keysym(str[srcIter])))
  /\ pc' = "return"
  /\ UNCHANGED <<srcIter, keypresses>>
  /\ ResolveFrame

\* wchar2keysym returned NoSymbol: the error is recorded and DoSendString returns
NoKeysym ==
  /\ pc = "resolve" /\ srcIter <= Len(str)
  /\ LET r == ConvertChar(str[srcIter]) IN
       /\ r.what = "nokeysym"
       /\ atGlobals' = [error_detected |-> TRUE, errorString |-> r.text]
  /\ pc' = "return"
  /\ UNCHANGED <<srcIter, keypresses, xlog>>
  /\ ResolveFrame

\* ------------------------------------------------------- strategy choice
\* UseXTest: the server is asked once per process, the answer is kept
\* mutant: the extension is queried in every call
UseXTest_everyCall(st, advertised) == [checked |-> 1, useXTest |-> advertised]

UseXTest(st, advertised) ==
  IF st.checked = 0 THEN [checked |-> 1, useXTest |-> advertised] ELSE st

\* mutant: the caller's preference is ignored
SelectXTest_ignoresMethod(st, m) == st.useXTest

SelectXTest(st, m) == st.useXTest /\ m # "ATMETHOD_XSENDKEYS"

\* the handler DoSendString installs before the injection pass
\* mutant: XSetErrorHandler leaves the default handler in place
InstalledHandler_default == "default"

InstalledHandler == "ErrorHandler"

\* the handler DoSendString leaves installed: XSetErrorHandler(NULL)
RestoredHandler(prior) == "default"

\* end of the conversion loop: handler installed, flag cleared, strategy chosen
BeginInjection ==
  /\ pc = "resolve" /\ srcIter > Len(str)
  /\ \E adv \in BOOLEAN :
       /\ xtestAdvertised' = adv
       /\ UseXTest_static' = UseXTest(UseXTest_static, adv)
       /\ useXTEST' = SelectXTest(UseXTest_static', method)
       /\ xlog' = xlog \o <<Call0("XSetErrorHandler")>>
                   \o (IF UseXTest_static.checked = 0
                       THEN <<Call0("XQueryExtension")>> ELSE <<>>)
                   \o (IF useXTEST' THEN <<Req("XTestGrabControl", 0, 1, 0, 0, 0)>>
                       ELSE <<>>)
  /\ handler' = InstalledHandler
  /\ atGlobals' = [atGlobals EXCEPT !.error_detected = FALSE]
  /\ pc' = "inject"
  /\ UNCHANGED <<callArgs, srcIter, keypresses, itr, display, window, focus,
                 pending, result, priorHandler, envVars, closes, openConns, stray,
                 injectErr>>
  /\ UNCHANGED <<entryFlag, fn, dlg, thr, mac, tmr>>


\* ------------------------------------------------------- injection pass
\* XTestFakeKeyEvent names no window: the server delivers the fake key to the
\* window holding input focus when the request arrives
\* XTestFakeKeyEvent(display, keycode, is_press, 0): the request carries no
\* modifier state, event->state is not handed on
XTest_SendEvent(keycode, press, state, foc) ==
  Req("XTestFakeKeyEvent", keycode, press, 0, foc, 0)

\* mutant: the fallback event goes to the window focused when it is sent
XSendKeys_SendEvent_toFocus(keycode, press, state, win) ==
  Req("XSendEvent", keycode, press, state, focus, 0)

\* XSendEvent is addressed to event->window
XSendKeys_SendEvent(keycode, press, state, win) ==
  Req("XSendEvent", keycode, press, state, win, 0)

\* the copy of the event that carries the shift key (shiftEvent)
ShiftEvent(e) == [e EXCEPT !.sym = XK_Shift_L]

\* mutant: the fallback events carry no modifier state
XSendKeys_SendKeyEvent_noState(kp, win) ==
  << XSendKeys_SendEvent(kp.code, 1, 0, win),
     XSendKeys_SendEvent(kp.code, 0, 0, win),
     Call0("XFlush") >>

XSendKeys_SendKeyEvent(kp, win) ==
  << XSendKeys_SendEvent(kp.code, 1, kp.state, win),
     XSendKeys_SendEvent(kp.code, 0, kp.state, win),
     Call0("XFlush") >>

\* mutant: shift is released before the target key is
XTest_SendKeyEvent_shiftFirstOut(kp, foc) ==
  LET shifted == BitAnd(kp.state, ShiftMask) # 0
      shiftCode == XKeysymToKeycode(XK_Shift_L)
  IN (IF shifted
      THEN << Req("XKeysymToKeycode", shiftCode, 0, 0, 0, XK_Shift_L),
              ShiftEvent(XTest_SendEvent(shiftCode, 1, kp.state, foc)) >>
      ELSE <<>>)
     \o << XTest_SendEvent(kp.code, 1, kp.state, foc) >>
     \o (IF shifted THEN << ShiftEvent(XTest_SendEvent(shiftCode, 0, kp.state, foc)) >>
         ELSE <<>>)
     \o << XTest_SendEvent(kp.code, 0, kp.state, foc), Call0("XFlush") >>

\* mutant: the native key-send function leaves its requests in the buffer
XTest_SendKeyEvent_noFlush(kp, foc) ==
  LET shifted == BitAnd(kp.state, ShiftMask) # 0
      shiftCode == XKeysymToKeycode(XK_Shift_L)
  IN (IF shifted
      THEN << Req("XKeysymToKeycode", shiftCode, 0, 0, 0, XK_Shift_L),
              ShiftEvent(XTest_SendEvent(shiftCode, 1, kp.state, foc)) >>
      ELSE <<>>)
     \o << XTest_SendEvent(kp.code, 1, kp.state, foc),
           XTest_SendEvent(kp.code, 0, kp.state, foc) >>
     \o (IF shifted THEN << ShiftEvent(XTest_SendEvent(shiftCode, 0, kp.state, foc)) >>
         ELSE <<>>)

\* mutant: the shift key stays down after the target key
XTest_SendKeyEvent_shiftHeld(kp, foc) ==
  LET shifted == BitAnd(kp.state, ShiftMask) # 0
      shiftCode == XKeysymToKeycode(XK_Shift_L)
  IN (IF shifted
      THEN << Req("XKeysymToKeycode", shiftCode, 0, 0, 0, XK_Shift_L),
              ShiftEvent(XTest_SendEvent(shiftCode, 1, kp.state, foc)) >>
      ELSE <<>>)
     \o << XTest_SendEvent(kp.code, 1, kp.state, foc),
           XTest_SendEvent(kp.code, 0, kp.state, foc) >>
     \o << Call0("XFlush") >>

XTest_SendKeyEvent(kp, foc) ==
  LET shifted == BitAnd(kp.state, ShiftMask) # 0
      shiftCode == XKeysymToKeycode(XK_Shift_L)
  IN (IF shifted
      THEN << Req("XKeysymToKeycode", shiftCode, 0, 0, 0, XK_Shift_L),
              ShiftEvent(XTest_SendEvent(shiftCode, 1, kp.state, foc)) >>
      ELSE <<>>)
     \o << XTest_SendEvent(kp.code, 1, kp.state, foc),
           XTest_SendEvent(kp.code, 0, kp.state, foc) >>
     \o (IF shifted THEN << ShiftEvent(XTest_SendEvent(shiftCode, 0, kp.state, foc)) >>
         ELSE <<>>)
     \o << Call0("XFlush") >>

KeySendFunction(native, kp, win, foc) ==
  IF native THEN XTest_SendKeyEvent(kp, foc) ELSE XSendKeys_SendKeyEvent(kp, win)

\* mutant: the pass goes on after an error was recorded
LoopGuard_ignoresFlag(i, kps, g) == i <= Len(kps)

\* mutant: the pass stops one keypress early
LoopGuard_offByOne(i, kps, g) == i < Len(kps) /\ ~g.error_detected

\* the loop condition of the injection pass
LoopGuard(i, kps, g) == i <= Len(kps) /\ ~g.error_detected

\* what the server may answer to the requests of one keypress: nothing, or one
\* error (a fake key the server refuses, an event for a window that is gone)
ServerErrors(native) ==
  IF native
  THEN {[error_code |-> BadValue, request_code |-> XTestMajorOpcode]}
  ELSE {[error_code |-> BadWindow, request_code |-> X_SendEvent]}

InjectFrame ==
  UNCHANGED <<entryFlag, fn, dlg, thr, mac, tmr, callArgs, srcIter, keypresses, useXTEST, handler, display, window,
              focus, xtestAdvertised, UseXTest_static, result, priorHandler,
              closes, openConns, stray>>

\* one keypress of the pass: KeySendFunction(&event); the server answers
\* the requests with one of the error sequences of E
SendKeyRaising(E) ==
  /\ pc = "inject"
  /\ LoopGuard(itr, keypresses, atGlobals)
  /\ xlog' = xlog \o KeySendFunction(useXTEST, keypresses[itr], window, focus)
  /\ \E es \in E : pending' = pending \o es /\ errs' = errs + Len(es)
  /\ pc' = "flush"
  /\ UNCHANGED <<itr, atGlobals, moves, injectErr>>
  /\ InjectFrame

\* at most MaxErrors errors in a call, one for a keypress
SendKey ==
  SendKeyRaising({<<>>} \cup IF errs < MaxErrors
                             THEN {<<e>> : e \in ServerErrors(useXTEST)} ELSE {})

\* mutant: the handler keeps the first error it recorded
ErrorHandlerCall_keepsFirst(g, ev) ==
  IF g.error_detected THEN g
  ELSE [error_detected |-> TRUE,
        errorString |-> [kind |-> "xerror", a |-> ev.request_code, b |-> ev.error_code]]

\* mutant: the handler saves the text but does not set the flag
ErrorHandlerCall_noFlag(g, ev) ==
  [error_detected |-> g.error_detected,
   errorString |-> [kind |-> "xerror", a |-> ev.request_code, b |-> ev.error_code]]

\* ErrorHandler sets the flag and saves the message text: a is the number
\* printed by "X error (%d)", b the error code whose text XGetErrorText gave
ErrorHandlerCall(g, ev) ==
  [error_detected |-> TRUE,
   errorString |-> [kind |-> "xerror", a |-> ev.request_code, b |-> ev.error_code]]

RECURSIVE DeliverAll(_, _)
DeliverAll(g, q) ==
  IF q = <<>> THEN g ELSE DeliverAll(ErrorHandlerCall(g, Head(q)), Tail(q))

\* Xlib reads an error off the connection while the pass runs and calls the
\* installed handler
ErrorHandler ==
  /\ pc = "flush"
  /\ pending # <<>>
  /\ handler = "ErrorHandler"
  /\ atGlobals' = ErrorHandlerCall(atGlobals, Head(pending))
  /\ pending' = Tail(pending)
  /\ injectErr' = TRUE
  /\ UNCHANGED <<pc, itr, xlog, envVars>>
  /\ InjectFrame

\* mutant: the pass goes to the next keypress without a sleep
Sleep_skipped ==
  /\ pc = "flush"
  /\ itr' = itr + 1
  /\ pc' = "inject"
  /\ UNCHANGED <<xlog, atGlobals, pending, envVars, injectErr>>
  /\ InjectFrame

\* pws_os::sleep_ms(delayMS), then ++itr
Sleep ==
  /\ pc = "flush"
  /\ xlog' = Append(xlog, Req("sleep_ms", 0, 0, delayMS, 0, 0))
  /\ itr' = itr + 1
  /\ pc' = "inject"
  /\ UNCHANGED <<atGlobals, pending, envVars, injectErr>>
  /\ InjectFrame

\* after the loop: XTestGrabControl(False) or XSync, then XSetErrorHandler(NULL).
\* XSync reads every outstanding error; XTestGrabControl reads nothing.
EndInjection ==
  /\ pc = "inject"
  /\ ~LoopGuard(itr, keypresses, atGlobals)
  /\ IF useXTEST
     THEN /\ xlog' = xlog \o <<Req("XTestGrabControl", 0, 0, 0, 0, 0),
                               Call0("XSetErrorHandler")>>
          /\ UNCHANGED <<atGlobals, pending>>
     ELSE /\ xlog' = xlog \o <<Call0("XSync"), Call0("XSetErrorHandler")>>
          /\ atGlobals' = IF handler = "ErrorHandler"
                          THEN DeliverAll(atGlobals, pending) ELSE atGlobals
          /\ pending' = <<>>
  /\ handler' = RestoredHandler(priorHandler)
  /\ pc' = "return"
  /\ UNCHANGED <<callArgs, srcIter, keypresses, itr, useXTEST, display, window,
                 focus, xtestAdvertised, UseXTest_static, result, priorHandler,
                 envVars, closes, openConns, stray, injectErr>>
  /\ UNCHANGED <<entryFlag, fn, dlg, thr, mac, tmr>>

\* ------------------------------------------------------------ call exit
\* mutant: the display is never closed
ClosesOnExit_leak(d) == 0

\* ~AutotypeEvent: only an open display is closed
ClosesOnExit(d) == IF d = "open" THEN 1 ELSE 0

\* mutant: the test of the flag is inverted
CallResult_inverted(g) ==
  IF ~g.error_detected THEN [status |-> "failure", what |-> g.errorString]
  ELSE [status |-> "success", what |-> NoText]

\* the check after DoSendString returned
CallResult(g) ==
  IF g.error_detected THEN [status |-> "failure", what |-> g.errorString]
  ELSE [status |-> "success", what |-> NoText]

\* DoSendString returns: ~AutotypeEvent closes the display (XCloseDisplay reads
\* the outstanding errors into whatever handler is installed), then SendString
\* throws if the flag is set
Return ==
  /\ pc = "return"
  /\ closes' = closes + ClosesOnExit(display)
  /\ openConns' = openConns - ClosesOnExit(display)
  /\ display' = IF ClosesOnExit(display) = 1 THEN "closed" ELSE display
  /\ xlog' = IF ClosesOnExit(display) = 1 THEN Append(xlog, Call0("XCloseDisplay"))
             ELSE xlog
  /\ stray' = stray + Len(pending)
  /\ pending' = <<>>
  /\ result' = CallResult(atGlobals)
  /\ pc' = "done"
  /\ UNCHANGED <<callArgs, srcIter, keypresses, itr, useXTEST, atGlobals, handler,
                 window, focus, xtestAdvertised, UseXTest_static, priorHandler,
                 envVars, injectErr>>
  /\ UNCHANGED <<entryFlag, fn, dlg, thr, mac, tmr>>

\* the caller has the outcome; the locals of the finished call are gone, the
\* file-scope error slot, the statics and the installed handler stay. The
\* window focused by the time of the next call is named TargetWindow again.
CallerResumes ==
  /\ pc = "done"
  /\ pc' = "idle"
  /\ str' = <<>> /\ method' = "ATMETHOD_AUTO" /\ delayMS' = 0
  /\ srcIter' = 1 /\ keypresses' = <<>> /\ itr' = 1 /\ useXTEST' = FALSE
  /\ display' = "NULL" /\ window' = 0
  /\ xtestAdvertised' = FALSE
  /\ pending' = <<>> /\ xlog' = <<>>
  /\ result' = [status |-> "none", what |-> NoText]
  /\ priorHandler' = handler
  /\ errs' = 0 /\ moves' = 0 /\ closes' = 0 /\ stray' = 0 /\ injectErr' = FALSE
  /\ focus' = TargetWindow
  /\ UNCHANGED <<atGlobals, handler, UseXTest_static, openConns>>
  /\ entryFlag' = FALSE
  /\ UNCHANGED otherVars

\* ---------------------------------------------------------- environment
\* input focus moves to another window between two keypresses of a running call
FocusChange(w) ==
  /\ pc = "inject"
  /\ moves < MaxFocusMoves
  /\ w # focus
  /\ focus' = w
  /\ moves' = moves + 1
  /\ UNCHANGED <<pc, callArgs, srcIter, keypresses, itr, useXTEST, atGlobals,
                 handler, display, window, xtestAdvertised, UseXTest_static,
                 pending, xlog, result, priorHandler, errs, closes, openConns,
                 stray, injectErr>>
  /\ UNCHANGED <<entryFlag, fn, dlg, thr, mac, tmr>>

\* between calls the application installs (or removes) its own X error handler
AppSetErrorHandler(h) ==
  /\ pc = "idle"
  /\ h # handler
  /\ handler' = h
  /\ UNCHANGED <<pc, callArgs, srcIter, keypresses, itr, useXTEST, atGlobals,
                 display, window, focus, xtestAdvertised, UseXTest_static,
                 pending, xlog, result, priorHandler, envVars, closes, openConns,
                 stray, injectErr>>
  /\ UNCHANGED <<entryFlag, fn, dlg, thr, mac, tmr>>

\* a caller invokes the engine once the previous call is over
Call ==
  /\ pc = "idle"
  /\ \E s \in Strings, m \in Methods, d \in Delays : SendString(s, m, d)
  /\ UNCHANGED entryFlag

Next ==
  \/ Call
  \/ OpenDisplay
  \/ OpenDisplayFails
  \/ SkipVerticalTab
  \/ ResolveKey
  \/ NoKeycode
  \/ NoKeysym
  \/ BeginInjection
  \/ SendKey
  \/ ErrorHandler
  \/ Sleep
  \/ EndInjection
  \/ Return
  \/ CallerResumes
  \/ \E w \in Windows : FocusChange(w)
  \/ \E h \in AppHandlers : AppSetErrorHandler(h)

Spec == Init /\ [][Next]_vars

\* ------------------------------------------------- calls after earlier calls
\* longest text of a call of the call-history specification
HistLen == 2
ShortStrings == UNION {[1..n -> Chars] : n \in 0..HistLen}

\* a call by a caller that notes whether the error flag left by the previous
\* call is still set when this call begins
CallAfterHistory ==
  /\ pc = "idle"
  /\ \E s \in ShortStrings, m \in Methods, d \in Delays : SendString(s, m, d)
  /\ entryFlag' = atGlobals.error_detected

NextCalls ==
  \/ CallAfterHistory
  \/ OpenDisplay
  \/ OpenDisplayFails
  \/ SkipVerticalTab
  \/ ResolveKey
  \/ NoKeycode
  \/ NoKeysym
  \/ BeginInjection
  \/ SendKey
  \/ ErrorHandler
  \/ Sleep
  \/ EndInjection
  \/ Return
  \/ CallerResumes
  \/ \E w \in Windows : FocusChange(w)
  \/ \E h \in AppHandlers : AppSetErrorHandler(h)

SpecCalls == Init /\ [][NextCalls]_vars

\* ------------------------------------------------ calls with printable ASCII
\* longest text of a call of the printable-ASCII specification
AsciiLen == 2
\* space, 'a', 'A' and '~': the two ends of 0x20..0x7E and two letters; the
\* keyboard of the model has no key for '~'
AsciiChars == {32, 97, 65, 126}
AsciiStrings == UNION {[1..n -> AsciiChars] : n \in 0..AsciiLen}

CallAscii ==
  /\ pc = "idle"
  /\ \E s \in AsciiStrings, m \in Methods, d \in Delays : SendString(s, m, d)
  /\ UNCHANGED entryFlag

NextAscii ==
  \/ CallAscii
  \/ OpenDisplay
  \/ OpenDisplayFails
  \/ ResolveKey
  \/ NoKeycode
  \/ BeginInjection
  \/ SendKey
  \/ ErrorHandler
  \/ Sleep
  \/ EndInjection
  \/ Return
  \/ CallerResumes
  \/ \E w \in Windows : FocusChange(w)
  \/ \E h \in AppHandlers : AppSetErrorHandler(h)

SpecAscii == Init /\ [][NextAscii]_vars

\* ------------------------------------- calls that need every kind of modifier
\* longest text of a call of the modifier specification
KeysLen == 2
\* 'a' (no modifier), 'A' (Shift), '@' (third level of its key: Mod5), the
\* euro sign (fifth symbol of its key, past the last candidate combination)
\* and '~' (on no key)
KeyChars == {97, 65, 64, 8364, 126}
KeyStrings == UNION {[1..n -> KeyChars] : n \in 0..KeysLen}

CallKeys ==
  /\ pc = "idle"
  /\ \E s \in KeyStrings, m \in Methods, d \in Delays : SendString(s, m, d)
  /\ UNCHANGED entryFlag

NextKeys ==
  \/ CallKeys
  \/ OpenDisplay
  \/ OpenDisplayFails
  \/ ResolveKey
  \/ NoKeycode
  \/ BeginInjection
  \/ SendKey
  \/ ErrorHandler
  \/ Sleep
  \/ EndInjection
  \/ Return
  \/ CallerResumes
  \/ \E w \in Windows : FocusChange(w)

SpecKeys == Init /\ [][NextKeys]_vars

\* --------------------------------------- calls that raise several errors
\* errors the handler may be handed in one call
MaxHandled == 2
\* XSendEvent is answered with BadWindow or BadValue, a fake key event of
\* XTEST with BadValue
RequestErrors(native) ==
  IF native
  THEN {[error_code |-> BadValue, request_code |-> XTestMajorOpcode]}
  ELSE {[error_code |-> BadWindow, request_code |-> X_SendEvent],
        [error_code |-> BadValue, request_code |-> X_SendEvent]}

\* a keypress is a press and a release request at least: each may raise an error
SendKeyErrors ==
  SendKeyRaising({es \in UNION {[1..n -> RequestErrors(useXTEST)] : n \in 0..2} :
                    errs + Len(es) <= MaxHandled})

CallShort ==
  /\ pc = "idle"
  /\ \E s \in ShortStrings, m \in Methods, d \in Delays : SendString(s, m, d)
  /\ UNCHANGED entryFlag

NextErrors ==
  \/ CallShort
  \/ OpenDisplay
  \/ OpenDisplayFails
  \/ SkipVerticalTab
  \/ ResolveKey
  \/ NoKeycode
  \/ NoKeysym
  \/ BeginInjection
  \/ SendKeyErrors
  \/ ErrorHandler
  \/ Sleep
  \/ EndInjection
  \/ Return
  \/ CallerResumes
  \/ \E w \in Windows : FocusChange(w)
  \/ \E h \in AppHandlers : AppSetErrorHandler(h)

SpecErrors == Init /\ [][NextErrors]_vars

\* ------------------------------------------------ wchar2keysym on its own
\* the code points -1..LastLowCodePoint are all tried
LastLowCodePoint == 300
\* wchar_t is a signed 32-bit integer: a negative value, Latin-1 and the first
\* code points after it, U+20AC, U+FFFF, and the two sides of U+10FFFF
CodePoints == (-1..LastLowCodePoint) \cup {8364, 65535, 1114111, 1114112}

Call_wchar2keysym ==
  /\ \E wc \in CodePoints :
        fn' = [name |-> "wchar2keysym", arg |-> <<wc>>,
               value |-> wchar2keysym(wc), done |-> TRUE]
  /\ UNCHANGED <<engineVars, dlg, thr, mac, tmr>>

NextKeysym == Call_wchar2keysym

SpecKeysym == Init /\ [][NextKeysym]_vars

\* ------------------------------------- the master-phrase dialog procedure
\* buffers of the virtual keyboard inserted into the edit fields of one dialog
MaxInserts == 2
Inserts(d) ==
  d.edits["IDC_PASSKEY"] + d.edits["IDC_NEWPASSKEY"] + d.edits["IDC_VERIFY"]
  + d.edits["IDC_CONFIRMNEW"]

\* the messages sent to the dialog procedure, each with its wParam: for
\* WM_COMMAND the control and the notification code, for WM_DRAWITEM the
\* control to draw (IDC_VKB stands for any control but IDC_SD_TOGGLE), for
\* WM_SHOWWINDOW whether the window is shown
Messages ==
  {"WM_INITDIALOG", "WM_SHOWWINDOW", "WM_COMMAND", "WM_DRAWITEM",
   "PWS_MSG_INSERTBUFFER", "WM_QUIT", "WM_PAINT"}
WParams(uMsg) ==
  CASE uMsg = "WM_SHOWWINDOW" -> {[id |-> "TRUE", code |-> ""], [id |-> "FALSE", code |-> ""]}
    [] uMsg = "WM_COMMAND" ->
         {[id |-> c, code |-> n] : c \in EditControls,
                                  n \in {"EN_SETFOCUS", "EN_CHANGE", "EN_KILLFOCUS"}}
         \cup {[id |-> "IDC_SD_TOGGLE", code |-> "BN_CLICKED"]}
    [] uMsg = "WM_DRAWITEM" ->
         {[id |-> "IDC_SD_TOGGLE", code |-> ""], [id |-> "IDC_VKB", code |-> ""]}
    [] OTHER -> {NoWParam}

\* what one message leaves behind: the message, whether it was processed
Answered(d, uMsg, wParam, ret) ==
  [d EXCEPT !.uMsg = uMsg, !.wParam = wParam, !.ret = ret, !.inserted = FALSE]

\* case PWS_MSG_INSERTBUFFER: EM_REPLACESEL of the virtual keyboard's buffer in
\* GetDlgItem(hwndDlg, m_iLastFocus); SendMessage to no window does nothing
InsertBuffer(d, uMsg, wParam) ==
  [Answered(d, uMsg, wParam, TRUE) EXCEPT
     !.inserted = TRUE,
     !.edits = IF d.m_iLastFocus \in EditControls
               THEN [d.edits EXCEPT ![d.m_iLastFocus] = @ + 1] ELSE d.edits]

\* case WM_COMMAND
OnCommand(d, uMsg, wParam) ==
  IF wParam.id \in EditControls
  THEN IF wParam.code = "EN_SETFOCUS"
       THEN [Answered(d, uMsg, wParam, FALSE) EXCEPT !.m_iLastFocus = wParam.id]
       ELSE Answered(d, uMsg, wParam, FALSE)
  ELSE IF wParam.id = "IDC_SD_TOGGLE"
  THEN [Answered(d, uMsg, wParam, TRUE) EXCEPT !.m_dwRC = "INT_MAX"]
  ELSE Answered(d, uMsg, wParam, FALSE)

\* case WM_DRAWITEM: draws the toggle button; for any other control the case
\* has no return and no break, control runs on into the next case
OnDrawItem(d, uMsg, wParam) ==
  IF wParam.id = "IDC_SD_TOGGLE" THEN Answered(d, uMsg, wParam, TRUE)
  ELSE InsertBuffer(d, uMsg, wParam)

\* CSDThread::MPDialogProc
MPDialogProc(d, uMsg, wParam) ==
  IF uMsg # "WM_INITDIALOG" /\ ~d.selfMPProc THEN Answered(d, uMsg, wParam, FALSE)
  ELSE CASE uMsg = "WM_INITDIALOG" ->
              [Answered(d, uMsg, wParam, TRUE) EXCEPT !.selfMPProc = TRUE]
         [] uMsg = "WM_SHOWWINDOW" ->
              [Answered(d, uMsg, wParam, FALSE) EXCEPT
                 !.m_bMPWindowBeingShown = (wParam.id = "TRUE")]
         [] uMsg = "WM_COMMAND" -> OnCommand(d, uMsg, wParam)
         [] uMsg = "WM_DRAWITEM" -> OnDrawItem(d, uMsg, wParam)
         [] uMsg = "PWS_MSG_INSERTBUFFER" -> InsertBuffer(d, uMsg, wParam)
         [] uMsg = "WM_QUIT" ->
              [Answered(d, uMsg, wParam, TRUE) EXCEPT !.selfMPProc = FALSE]
         [] OTHER -> Answered(d, uMsg, wParam, FALSE)

\* the system hands one message to the dialog procedure
DispatchMessage ==
  /\ \E uMsg \in Messages : \E wParam \in WParams(uMsg) :
        /\ Inserts(MPDialogProc(dlg, uMsg, wParam)) <= MaxInserts
        /\ dlg' = MPDialogProc(dlg, uMsg, wParam)
  /\ UNCHANGED <<engineVars, fn, thr, mac, tmr>>

\* m_iLastFocus is not set by the constructor: it names an edit field or none
InitDialog ==
  /\ InitEngine /\ fn = NoFn /\ thr = NoThr /\ mac = NoMac /\ tmr = NoTmr
  /\ \E f \in EditControls \cup {"none"} : dlg = [NoDlg EXCEPT !.m_iLastFocus = f]

NextDialog == DispatchMessage

SpecDialog == InitDialog /\ [][NextDialog]_vars

\* ----------------------------------------- the candidate list on its own
\* modifier maps: Shift holds the shift key; each of Mod1..Mod5 holds no key,
\* the ISO_Level3_Shift key, the Mode_switch key, or a key with both symbols
ModifierMaps ==
  {<<50, 0, 0>> \o rows : rows \in [1..5 -> {0, 92, 93, 94}]}

Call_CandidateMasks ==
  /\ ~fn.done
  /\ \E modmap \in ModifierMaps :
        fn' = [name |-> "CandidateMasks", arg |-> modmap,
               value |-> CandidateMasksOn(modmap), done |-> TRUE]
  /\ UNCHANGED <<engineVars, dlg, thr, mac, tmr>>

NextMasks == Call_CandidateMasks

SpecMasks == Init /\ [][NextMasks]_vars

\* ------------------------------------------- CalcModifiersForKeysym on its own
\* the key codes of the keyboard and one key code that holds no symbol
KeyCodes == DOMAIN Keymap \cup {9}
\* every symbol of the keyboard and '~', which no key holds
KeySyms == UNION {{Keymap[kc][j] : j \in 1..Len(Keymap[kc])} : kc \in DOMAIN Keymap}
           \cup {126}

Call_CalcModifiersForKeysym ==
  /\ \E code \in KeyCodes, sym \in KeySyms :
        fn' = [name |-> "CalcModifiersForKeysym", arg |-> <<code, sym>>,
               value |-> CalcModifiersForKeysym(code, sym), done |-> TRUE]
  /\ UNCHANGED <<engineVars, dlg, thr, mac, tmr>>

NextModifiers == Call_CalcModifiersForKeysym

SpecModifiers == Init /\ [][NextModifiers]_vars

\* ------------------------------------- the thread of the secure desktop
\* the three dialogs the thread can show
DialogIDs == {"IDD_SDGETPHRASE", "IDD_SDKEYCHANGE", "IDD_SDPASSKEYSETUP"}
\* what GetControlText finds in an edit field: nothing, or one of two phrases
Texts == {0, 1, 2}
\* the answers of PWScore::CheckPasskey to the old phrase
CheckPasskeyResults == {"SUCCESS", "WRONG_PASSWORD", "CANT_OPEN_FILE"}
\* the progress flags that each stand for one resource of the thread
ResourceFlags ==
  {"NEWDESKTOCREATED", "SETTHREADDESKTOP", "SWITCHEDDESKTOP",
   "REGISTEREDWINDOWCLASS", "BACKGROUNDWINDOWCREATED",
   "MASTERPHRASEDIALOGCREATED", "VIRTUALKEYBOARDCREATED"}

ApiCall(op, arg, ok) == [op |-> op, arg |-> arg, ok |-> ok]
Step(op, arg, flag, fail) == [op |-> op, arg |-> arg, flag |-> flag, fail |-> fail]

\* the setup of ThreadProc, in the order of the code: each call that fails
\* goes to BadExit, each call that succeeds sets its progress flag; operator
\* new has no failure branch. ImmDisableIME, whose failure is only reported,
\* holds no resource and is left out
SetupSteps ==
  << Step("CreateDesktop", "m_sDesktopName", "NEWDESKTOCREATED", "BadExit"),
     Step("SetThreadDesktop", "m_hNewDesktop", "SETTHREADDESKTOP", "BadExit"),
     Step("SwitchDesktop", "m_hNewDesktop", "SWITCHEDDESKTOP", "BadExit"),
     Step("RegisterClass", "m_sBkGrndClassName", "REGISTEREDWINDOWCLASS", "BadExit"),
     Step("CreateWindowEx", "m_sBkGrndClassName", "BACKGROUNDWINDOWCREATED", "BadExit"),
     Step("CreateDialogParam", "m_wDialogID", "MASTERPHRASEDIALOGCREATED", "BadExit"),
     Step("new", "CVKeyBoardDlg", "VIRTUALKEYBOARDCREATED", "never") >>

\* the teardown of ThreadProc after the message loop: a call that succeeds
\* clears its flag; a call that fails goes to BadExit with the flag still
\* set; the failure of CloseDesktop is reported and the flag cleared all the
\* same
TeardownSteps ==
  << Step("DestroyWindow", "m_hwndMasterPhraseDlg", "MASTERPHRASEDIALOGCREATED", "BadExit"),
     Step("delete", "m_pVKeyBoardDlg", "VIRTUALKEYBOARDCREATED", "never"),
     Step("DestroyWindow", "m_hwndBkGnd", "BACKGROUNDWINDOWCREATED", "BadExit"),
     Step("UnregisterClass", "m_sBkGrndClassName", "REGISTEREDWINDOWCLASS", "BadExit"),
     Step("SwitchDesktop", "m_hOriginalDesk", "SWITCHEDDESKTOP", "BadExit"),
     Step("SetThreadDesktop", "m_hOriginalDesk", "SETTHREADDESKTOP", "BadExit"),
     Step("CloseDesktop", "m_hNewDesktop", "NEWDESKTOCREATED", "ignored") >>

BadExitSteps_skipsDialog ==
  << Step("delete", "m_pVKeyBoardDlg", "VIRTUALKEYBOARDCREATED", "ignored"),
     Step("DestroyWindow", "m_hwndBkGnd", "BACKGROUNDWINDOWCREATED", "ignored"),
     Step("UnregisterClass", "m_sBkGrndClassName", "REGISTEREDWINDOWCLASS", "ignored"),
     Step("SwitchDesktop", "m_hOriginalDesk", "SWITCHEDDESKTOP", "ignored"),
     Step("SetThreadDesktop", "m_hOriginalDesk", "SETTHREADDESKTOP", "ignored"),
     Step("CloseDesktop", "m_hNewDesktop", "NEWDESKTOCREATED", "ignored") >>

BadExitSteps_closesFirst ==
  << Step("delete", "m_pVKeyBoardDlg", "VIRTUALKEYBOARDCREATED", "ignored"),
     Step("DestroyWindow", "m_hwndMasterPhraseDlg", "MASTERPHRASEDIALOGCREATED", "ignored"),
     Step("DestroyWindow", "m_hwndBkGnd", "BACKGROUNDWINDOWCREATED", "ignored"),
     Step("UnregisterClass", "m_sBkGrndClassName", "REGISTEREDWINDOWCLASS", "ignored"),
     Step("CloseDesktop", "m_hNewDesktop", "NEWDESKTOCREATED", "ignored"),
     Step("SwitchDesktop", "m_hOriginalDesk", "SWITCHEDDESKTOP", "ignored"),
     Step("SetThreadDesktop", "m_hOriginalDesk", "SETTHREADDESKTOP", "ignored") >>

\* the label BadExit: one call for each flag that is set, every result ignored
BadExitSteps ==
  << Step("delete", "m_pVKeyBoardDlg", "VIRTUALKEYBOARDCREATED", "ignored"),
     Step("DestroyWindow", "m_hwndMasterPhraseDlg", "MASTERPHRASEDIALOGCREATED", "ignored"),
     Step("DestroyWindow", "m_hwndBkGnd", "BACKGROUNDWINDOWCREATED", "ignored"),
     Step("UnregisterClass", "m_sBkGrndClassName", "REGISTEREDWINDOWCLASS", "ignored"),
     Step("SwitchDesktop", "m_hOriginalDesk", "SWITCHEDDESKTOP", "ignored"),
     Step("SetThreadDesktop", "m_hOriginalDesk", "SETTHREADDESKTOP", "ignored"),
     Step("CloseDesktop", "m_hNewDesktop", "NEWDESKTOCREATED", "ignored") >>

\* the calls BadExit makes when the progress flags are xFlags
RECURSIVE BadExitCalls(_, _)
BadExitCalls(steps, xFlags) ==
  IF steps = <<>> THEN <<>>
  ELSE (IF Head(steps).flag \in xFlags
        THEN <<ApiCall(Head(steps).op, Head(steps).arg, "ignored")>> ELSE <<>>)
       \o BadExitCalls(Tail(steps), xFlags)

\* entry of ThreadProc: the result is -1 and the shared phrases are cleared
ThreadProc ==
  /\ thr.pc = "start"
  /\ thr' = [thr EXCEPT !.pc = "setup", !.step = 1, !.m_dwRC = "-1",
                        !.m_pGMP = NoPhrase]
  /\ UNCHANGED <<engineVars, fn, dlg, mac, tmr>>

\* one call of the setup succeeds; after the last the dialog is shown and the
\* message loop begins
SetupStep ==
  /\ thr.pc = "setup"
  /\ LET st == SetupSteps[thr.step] IN
       thr' = [thr EXCEPT
                 !.calls = Append(@, ApiCall(st.op, st.arg, "ok")),
                 !.xFlags = @ \cup {st.flag},
                 !.held = @ \cup {st.flag},
                 !.step = IF thr.step = Len(SetupSteps) THEN 1 ELSE @ + 1,
                 !.pc = IF thr.step = Len(SetupSteps) THEN "loop" ELSE @]
  /\ UNCHANGED <<engineVars, fn, dlg, mac, tmr>>

\* one call of the setup fails: goto BadExit
SetupFails ==
  /\ thr.pc = "setup"
  /\ LET st == SetupSteps[thr.step] IN
       /\ st.fail = "BadExit"
       /\ thr' = [thr EXCEPT
                    !.calls = Append(@, ApiCall(st.op, st.arg, "failed")),
                    !.pc = "BadExit"]
  /\ UNCHANGED <<engineVars, fn, dlg, mac, tmr>>

\* PostQuitMessage(rc); m_dwRC = rc
Quit(t, rc) == [t EXCEPT !.quit = TRUE, !.m_dwRC = rc]

\* mutant: the setup dialog does not compare the phrase with the verify field
IDOK_noVerify(t, sxPassKey, sxNewPassKey1, sxNewPassKey2, rc, weak, answer) ==
  IF sxPassKey = 0 THEN t
  ELSE LET stored == [t EXCEPT !.m_pGMP.sPhrase = sxPassKey,
                               !.m_pGMP.bPhraseEntered = TRUE]
           both == [stored EXCEPT !.m_pGMP.sNewPhrase = sxNewPassKey1,
                                  !.m_pGMP.bNewPhraseEntered = TRUE]
       IN CASE t.m_wDialogID = "IDD_SDGETPHRASE" -> Quit(stored, "IDOK")
            [] t.m_wDialogID = "IDD_SDKEYCHANGE" ->
                 IF \/ rc \in {"WRONG_PASSWORD", "CANT_OPEN_FILE"}
                    \/ sxNewPassKey1 = 0
                    \/ sxNewPassKey1 # sxNewPassKey2
                    \/ (weak /\ answer = "IDNO")
                 THEN stored ELSE Quit(both, "IDOK")
            [] t.m_wDialogID = "IDD_SDPASSKEYSETUP" ->
                 IF weak /\ answer = "IDNO"
                 THEN stored ELSE Quit(both, "IDOK")

\* case IDOK of WM_COMMAND: the old phrase is stored as soon as it is not
\* empty, before the checks of the dialog at hand; a failed check returns with
\* the dialog still open
IDOK(t, sxPassKey, sxNewPassKey1, sxNewPassKey2, rc, weak, answer) ==
  IF sxPassKey = 0 THEN t
  ELSE LET stored == [t EXCEPT !.m_pGMP.sPhrase = sxPassKey,
                               !.m_pGMP.bPhraseEntered = TRUE]
           both == [stored EXCEPT !.m_pGMP.sNewPhrase = sxNewPassKey1,
                                  !.m_pGMP.bNewPhraseEntered = TRUE]
       IN CASE t.m_wDialogID = "IDD_SDGETPHRASE" -> Quit(stored, "IDOK")
            [] t.m_wDialogID = "IDD_SDKEYCHANGE" ->
                 IF \/ rc \in {"WRONG_PASSWORD", "CANT_OPEN_FILE"}
                    \/ sxNewPassKey1 = 0
                    \/ sxNewPassKey1 # sxNewPassKey2
                    \/ (weak /\ answer = "IDNO")
                 THEN stored ELSE Quit(both, "IDOK")
            [] t.m_wDialogID = "IDD_SDPASSKEYSETUP" ->
                 IF \/ sxPassKey # sxNewPassKey1
                    \/ (weak /\ answer = "IDNO")
                 THEN stored ELSE Quit(both, "IDOK")

\* case IDCANCEL of WM_COMMAND
IDCANCEL(t) == Quit([t EXCEPT !.m_pGMP = NoPhrase], "IDCANCEL")

\* case IDC_SD_TOGGLE of WM_COMMAND
IDC_SD_TOGGLE(t) == Quit(t, "INT_MAX")

\* the message loop hands the OK button to the dialog procedure
CommandOK ==
  /\ thr.pc = "loop" /\ ~thr.quit
  /\ \E sxPassKey \in Texts, sxNewPassKey1 \in Texts, sxNewPassKey2 \in Texts,
        rc \in CheckPasskeyResults, weak \in BOOLEAN, answer \in {"IDYES", "IDNO"} :
        thr' = [IDOK(thr, sxPassKey, sxNewPassKey1, sxNewPassKey2, rc, weak, answer)
                  EXCEPT !.cmd = "IDOK",
                         !.read = [sxPassKey |-> sxPassKey,
                                   sxNewPassKey1 |-> sxNewPassKey1,
                                   sxNewPassKey2 |-> sxNewPassKey2,
                                   rc |-> rc, weak |-> weak, answer |-> answer]]
  /\ UNCHANGED <<engineVars, fn, dlg, mac, tmr>>

CommandCancel ==
  /\ thr.pc = "loop" /\ ~thr.quit
  /\ thr' = [IDCANCEL(thr) EXCEPT !.cmd = "IDCANCEL"]
  /\ UNCHANGED <<engineVars, fn, dlg, mac, tmr>>

CommandToggle ==
  /\ thr.pc = "loop" /\ ~thr.quit
  /\ thr' = [IDC_SD_TOGGLE(thr) EXCEPT !.cmd = "IDC_SD_TOGGLE"]
  /\ UNCHANGED <<engineVars, fn, dlg, mac, tmr>>

\* the message loop ends: GetMessage returned 0 for the posted quit message,
\* or -1; the dialog procedure gets WM_QUIT and the thread notes that the
\* dialog has ended
LoopEnds ==
  /\ thr.pc = "loop"
  /\ \E brc \in {0, -1} :
        /\ brc = 0 => thr.quit
        /\ brc = -1 => ~thr.quit
  /\ thr' = [thr EXCEPT !.pc = "teardown", !.step = 1,
                        !.xFlags = @ \cup {"MASTERPHRASEDIALOGENDED"}]
  /\ UNCHANGED <<engineVars, fn, dlg, mac, tmr>>

\* after the last call of the teardown the thread returns m_dwRC
AfterStep(t) ==
  IF t.step = Len(TeardownSteps)
  THEN [t EXCEPT !.pc = "returned", !.exit = "normal", !.ret = t.m_dwRC]
  ELSE [t EXCEPT !.step = @ + 1]

\* one call of the teardown succeeds and its flag is cleared
TeardownStep ==
  /\ thr.pc = "teardown"
  /\ LET st == TeardownSteps[thr.step] IN
       thr' = IF st.fail = "ignored" /\ st.flag \notin thr.xFlags
              THEN AfterStep([thr EXCEPT !.xFlags = @ \ {st.flag}])
              ELSE AfterStep([thr EXCEPT
                                !.calls = Append(@, ApiCall(st.op, st.arg, "ok")),
                                !.xFlags = @ \ {st.flag},
                                !.held = @ \ {st.flag}])
  /\ UNCHANGED <<engineVars, fn, dlg, mac, tmr>>

\* one call of the teardown fails: goto BadExit with its flag still set, or,
\* for CloseDesktop, on to the return with the flag cleared
TeardownFails ==
  /\ thr.pc = "teardown"
  /\ LET st == TeardownSteps[thr.step]
         failed == [thr EXCEPT !.calls = Append(@, ApiCall(st.op, st.arg, "failed"))]
     IN /\ st.fail # "never"
        /\ st.fail = "ignored" => st.flag \in thr.xFlags
        /\ thr' = IF st.fail = "ignored"
                  THEN AfterStep([failed EXCEPT !.xFlags = @ \ {st.flag}])
                  ELSE [failed EXCEPT !.pc = "BadExit"]
  /\ UNCHANGED <<engineVars, fn, dlg, mac, tmr>>

\* the label BadExit and the return of -1
BadExit ==
  /\ thr.pc = "BadExit"
  /\ thr' = [thr EXCEPT
               !.released = BadExitCalls(BadExitSteps, thr.xFlags),
               !.calls = @ \o BadExitCalls(BadExitSteps, thr.xFlags),
               !.pc = "returned", !.exit = "BadExit", !.ret = "-1"]
  /\ UNCHANGED <<engineVars, fn, dlg, mac, tmr>>

\* the constructor is given the dialog to show
InitThread ==
  /\ InitEngine /\ fn = NoFn /\ dlg = NoDlg /\ mac = NoMac /\ tmr = NoTmr
  /\ \E id \in DialogIDs : thr = [NoThr EXCEPT !.m_wDialogID = id]

NextThread ==
  \/ ThreadProc \/ SetupStep \/ SetupFails
  \/ CommandOK \/ CommandCancel \/ CommandToggle \/ LoopEnds
  \/ TeardownStep \/ TeardownFails \/ BadExit

SpecThread == InitThread /\ [][NextThread]_vars


\* ------------------------------------------------------- the keyed hash
\* calls made on one HMAC object after its construction
MaxOps == 3
\* longest key; longer than the block, so that a key is hashed
MaxKeyLen == 3
\* template parameters BLOCKSIZE and HASHLEN, scaled down: the digest is
\* shorter than the block
BLOCKSIZE == 2
HASHLEN == 1
KeyBytes == {1}
DataBytes == {3}
Keys == UNION {[1..n -> KeyBytes] : n \in 0..MaxKeyLen}
Inputs == {<<b>> : b \in DataBytes}

\* exclusive or of two bytes
RECURSIVE Xor8(_, _, _)
Xor8(a, b, bits) ==
  IF bits = 0 THEN 0
  ELSE (IF a % 2 = b % 2 THEN 0 ELSE 1) + 2 * Xor8(a \div 2, b \div 2, bits - 1)

\* a byte is a literal value, or byte i of the digest of the bytes h, in both
\* cases combined by exclusive or with x
Lit(v) == [h |-> <<>>, i |-> 0, x |-> v]
LitSeq(s) == [j \in 1..Len(s) |-> Lit(s[j])]
XorByte(b, m) == [b EXCEPT !.x = Xor8(@, m, 8)]
XorAll(s, m) == [j \in 1..Len(s) |-> XorByte(s[j], m)]
Zeros(n) == [j \in 1..n |-> Lit(0)]

\* class H: the digest of the bytes fed to a hash object; two feeds have the
\* same digest only when they are equal
Digest(fed) == [j \in 1..HASHLEN |-> [h |-> fed, i |-> j, x |-> 0]]
\* what H::Final leaves in the object, by the hash class the template is
\* given: a fresh state, or the old one closed
FinalMark == [h |-> <<>>, i |-> -1, x |-> 0]
AfterFinal(fed, reinit) == IF reinit THEN <<>> ELSE Append(fed, FinalMark)

\* HMAC::Init: K takes the key or its digest over what it held; the inner
\* hash is fed K ^ 0x36
HMAC_Init(m, key) ==
  LET K == IF Len(key) > BLOCKSIZE
           THEN [j \in 1..BLOCKSIZE |->
                   IF j <= HASHLEN THEN Digest(LitSeq(key))[j] ELSE m.K[j]]
           ELSE [j \in 1..BLOCKSIZE |->
                   IF j <= Len(key) THEN Lit(key[j]) ELSE m.K[j]]
  IN [m EXCEPT !.K = K, !.Hash = @ \o XorAll(K, 54),
               !.key = key, !.keyed = TRUE, !.data = <<>>, !.last = "Init"]

\* HMAC::Update
HMAC_Update(m, in) ==
  [m EXCEPT !.Hash = @ \o LitSeq(in), !.data = @ \o in, !.last = "Update"]

\* HMAC::Final: the digest of K ^ 0x5c and the inner digest; K is zeroed
HMAC_Final(m) ==
  [m EXCEPT !.digest = Digest(XorAll(m.K, 92) \o Digest(m.Hash)),
            !.K = Zeros(BLOCKSIZE),
            !.Hash = AfterFinal(m.Hash, m.reinit),
            !.last = "Final"]

\* HMAC(): memset(K, 0, sizeof(K))
HMAC_default(reinit) ==
  [NoMac EXCEPT !.K = Zeros(BLOCKSIZE), !.last = "HMAC", !.reinit = reinit]

\* HMAC(key, keylen): memset(K, 0, sizeof(K)); Init(key, keylen)
HMAC_key(key, reinit) == HMAC_Init(HMAC_default(reinit), key)

\* HMAC_BASE::Doit
HMAC_Doit(m, key, in) ==
  HMAC_Final(HMAC_Update(HMAC_Init(m, key), in))

Counted(m) == [m EXCEPT !.ops = @ + 1]

Construct ==
  /\ mac.last = ""
  /\ \E reinit \in BOOLEAN :
        \/ mac' = HMAC_default(reinit)
        \/ \E key \in Keys : mac' = HMAC_key(key, reinit)
  /\ UNCHANGED <<engineVars, fn, dlg, thr, tmr>>

CallInit ==
  /\ mac.last # "" /\ mac.ops < MaxOps
  /\ \E key \in Keys : mac' = Counted(HMAC_Init(mac, key))
  /\ UNCHANGED <<engineVars, fn, dlg, thr, tmr>>

CallUpdate ==
  /\ mac.last # "" /\ mac.ops < MaxOps
  /\ \E in \in Inputs : mac' = Counted(HMAC_Update(mac, in))
  /\ UNCHANGED <<engineVars, fn, dlg, thr, tmr>>

CallFinal ==
  /\ mac.last # "" /\ mac.ops < MaxOps
  /\ mac' = Counted(HMAC_Final(mac))
  /\ UNCHANGED <<engineVars, fn, dlg, thr, tmr>>

CallDoit ==
  /\ mac.last # "" /\ mac.ops < MaxOps
  /\ \E key \in Keys, in \in Inputs :
        mac' = Counted(HMAC_Doit(mac, key, in))
  /\ UNCHANGED <<engineVars, fn, dlg, thr, tmr>>

NextHmac == Construct \/ CallInit \/ CallUpdate \/ CallFinal \/ CallDoit

SpecHmac == Init /\ [][NextHmac]_vars


\* --------------------------------- the timer of the secure desktop's dialog
\* the commands that end the dialog
ClosingCommands == {"IDOK", "IDCANCEL", "IDC_SD_TOGGLE"}
\* where the dialog thread is once the WM_QUIT handling has returned
AfterQuit == {"returned", "destroying", "destroyed"}

\* case WM_INITDIALOG: with the secure desktop in use a timer that fires every
\* 100 ms is created (its failure is only reported); TimerProc is told to act
WM_INITDIALOG ==
  /\ tmr.pc = "CreateDialogParam"
  /\ \E created \in BOOLEAN :
        tmr' = [tmr EXCEPT
                  !.m_hTimer = IF tmr.m_bUseSecureDesktop /\ created
                               THEN "timer" ELSE "NULL",
                  !.queued = tmr.m_bUseSecureDesktop /\ created,
                  !.m_bDoTimerProcAction = TRUE,
                  !.pc = "loop"]
  /\ UNCHANGED <<engineVars, fn, dlg, thr, mac>>

\* case WM_SHOWWINDOW
WM_SHOWWINDOW ==
  /\ tmr.pc = "loop"
  /\ \E wParam \in BOOLEAN : tmr' = [tmr EXCEPT !.m_bMPWindowBeingShown = wParam]
  /\ UNCHANGED <<engineVars, fn, dlg, thr, mac>>

\* a command ends the dialog and the message loop: IDOK and IDCANCEL tell
\* TimerProc to do nothing, IDC_SD_TOGGLE does not
CloseCommand ==
  /\ tmr.pc = "loop"
  /\ \E id \in ClosingCommands :
        tmr' = [tmr EXCEPT
                  !.m_bDoTimerProcAction = IF id = "IDC_SD_TOGGLE" THEN @ ELSE FALSE,
                  !.pc = "WM_QUIT"]
  /\ UNCHANGED <<engineVars, fn, dlg, thr, mac>>

\* case WM_QUIT, called by ThreadProc after the loop: without a timer it
\* returns; with one it tells TimerProc to do nothing and creates the event
\* for the deletion, whose failure is only reported
WM_QUIT ==
  /\ tmr.pc = "WM_QUIT"
  /\ IF tmr.m_hTimer = "NULL"
     THEN tmr' = [tmr EXCEPT !.pc = "returned"]
     ELSE \E hEvent \in {"event", "NULL"} :
            tmr' = [tmr EXCEPT !.m_bDoTimerProcAction = FALSE,
                               !.hEvent = hEvent,
                               !.pc = "DeleteTimerQueueTimer"]
  /\ UNCHANGED <<engineVars, fn, dlg, thr, mac>>

\* DeleteTimerQueueTimer(NULL, m_hTimer, hEvent): the timer fires no more and
\* a callback that is running runs to its end; a failure is only reported and
\* leaves the timer in the queue
DeleteTimerQueueTimer ==
  /\ tmr.pc = "DeleteTimerQueueTimer"
  /\ \E brc \in BOOLEAN :
        tmr' = [tmr EXCEPT !.queued = IF brc THEN FALSE ELSE @,
                           !.deleted = brc,
                           !.pc = "WaitForSingleObject"]
  /\ UNCHANGED <<engineVars, fn, dlg, thr, mac>>

\* WaitForSingleObject(hEvent, INFINITE): the event is set when the timer is
\* deleted and every callback of it has ended; the wait on no event fails at
\* once. Then
\* CloseHandle, selfMPProc = NULL and the return
WaitForSingleObject ==
  /\ tmr.pc = "WaitForSingleObject"
  /\ tmr.hEvent = "NULL" \/ (tmr.deleted /\ tmr.cb = "none")
  /\ tmr' = [tmr EXCEPT !.pc = "returned"]
  /\ UNCHANGED <<engineVars, fn, dlg, thr, mac>>

\* ThreadProc after the WM_QUIT call: DestroyWindow of the dialog begins,
\* then the windows are gone
DestroyWindows ==
  /\ tmr.pc \in {"returned", "destroying"}
  /\ tmr' = [tmr EXCEPT !.pc = IF tmr.pc = "returned" THEN "destroying"
                                ELSE "destroyed"]
  /\ UNCHANGED <<engineVars, fn, dlg, thr, mac>>

\* the timer queue calls TimerProc on its own thread
TimerFires ==
  /\ tmr.queued /\ tmr.cb = "none"
  /\ tmr' = [tmr EXCEPT !.cb = "entered"]
  /\ UNCHANGED <<engineVars, fn, dlg, thr, mac>>

\* TimerProc: return when told to do nothing or when no window is shown
TimerProc_Check ==
  /\ tmr.cb = "entered"
  /\ tmr' = [tmr EXCEPT
               !.cb = IF ~tmr.m_bDoTimerProcAction \/ ~tmr.m_bMPWindowBeingShown
                      THEN "none" ELSE "acting"]
  /\ UNCHANGED <<engineVars, fn, dlg, thr, mac>>

\* TimerProc: IsWindowVisible, ShowWindow and SetWindowText on the handles of
\* the dialog and of the virtual keyboard, then the return
TimerProc_Act ==
  /\ tmr.cb = "acting"
  /\ tmr' = [tmr EXCEPT !.touched = @ \cup {tmr.pc}, !.cb = "none"]
  /\ UNCHANGED <<engineVars, fn, dlg, thr, mac>>

\* InitInstance reads the preference UseSecureDesktop
InitTimer ==
  /\ InitEngine /\ fn = NoFn /\ dlg = NoDlg /\ thr = NoThr /\ mac = NoMac
  /\ \E use \in BOOLEAN : tmr = [NoTmr EXCEPT !.m_bUseSecureDesktop = use]

NextTimer ==
  \/ WM_INITDIALOG \/ WM_SHOWWINDOW \/ CloseCommand \/ WM_QUIT
  \/ DeleteTimerQueueTimer \/ WaitForSingleObject \/ DestroyWindows
  \/ TimerFires \/ TimerProc_Check \/ TimerProc_Act

SpecTimer == InitTimer /\ [][NextTimer]_vars


\* =================================================================== claims
IsKeyEvent(r) == r.op \in {"XTestFakeKeyEvent", "XSendEvent"}
IsLookup(r) == r.op = "XKeysymToKeycode"
IsTargetPress(r) == IsKeyEvent(r) /\ r.press = 1 /\ r.sym = 0
IsTargetRelease(r) == IsKeyEvent(r) /\ r.press = 0 /\ r.sym = 0
KeyEvents == SelectSeq(xlog, IsKeyEvent)
Codes(evs) == [i \in 1..Len(evs) |-> evs[i].keycode]
NotVT(c) == c # VT
StripVT(s) == SelectSeq(s, NotVT)
Unresolvable(c) ==
  c # VT /\ (wchar2keysym(c) = NoSymbol \/ XKeysymToKeycode(wchar2keysym(c)) = 0)
ExpectedCodes(s) ==
  [i \in 1..Len(StripVT(s)) |-> XKeysymToKeycode(wchar2keysym(StripVT(s)[i]))]
Count(s, P(_)) == Len(SelectSeq(s, P))
IsPrefix(a, b) == Len(a) <= Len(b) /\ \A i \in 1..Len(a) : a[i] = b[i]

\* C1: a call whose input holds a character (other than vertical tab) without a
\* keysym or without a keycode injects no key event at any moment and ends in
\* failure, wherever the character stands.
C1_AllOrNothing ==
  (pc # "idle" /\ \E i \in 1..Len(str) : Unresolvable(str[i]))
    => /\ KeyEvents = <<>>
       /\ pc = "done" => result.status = "failure"

\* C1 witness: a finished call on three characters whose middle one alone is
\* unresolvable, with the display opened
C1_Witness ==
  /\ pc = "done" /\ Len(str) = 3 /\ display = "closed"
  /\ Unresolvable(str[2]) /\ ~Unresolvable(str[1]) /\ ~Unresolvable(str[3])
  /\ str[1] # VT /\ str[3] # VT
  /\ result.status = "failure" /\ KeyEvents = <<>>

\* C2 (as claimed): within a call every keysym-to-keycode lookup precedes every
\* key event sent to the server.
C2_NoLookupAfterFirstEvent ==
  \A i, j \in 1..Len(xlog) :
    (IsKeyEvent(xlog[i]) /\ IsLookup(xlog[j])) => j < i


C4_HandlerRestored ==
  pc = "done" => handler = priorHandler

\* C5 (as claimed): every key event of a call goes to the window recorded when
\* the connection was opened.
C5_AllEventsToRecordedWindow ==
  \A i \in 1..Len(xlog) : IsKeyEvent(xlog[i]) => xlog[i].window = window

IsFocusQuery(r) == r.op = "XGetInputFocus"
NewRequests(old, new) == {new[i] : i \in (Len(old) + 1)..Len(new)}

\* C5 (amended): every event of the fallback strategy is addressed to the window
\* recorded when the connection was opened, wherever the focus is by then; an
\* event of the native strategy goes to the window holding focus when it is
\* sent; the focus is queried once per opened connection.
C5_FallbackToRecordedWindow ==
  /\ [](/\ \A i \in 1..Len(xlog) :
             xlog[i].op = "XSendEvent" => xlog[i].window = window
        /\ display # "NULL" => /\ Count(xlog, IsFocusQuery) = 1
                               /\ SelectSeq(xlog, IsFocusQuery)[1].window = window
        /\ display = "NULL" => Count(xlog, IsFocusQuery) = 0)
  /\ [][pc' # "idle" =>
          \A r \in NewRequests(xlog, xlog') :
             r.op = "XTestFakeKeyEvent" => r.window = focus]_vars

\* C5 witness: a finished fallback call whose events were sent after the focus
\* had left the recorded window
C5_Witness ==
  /\ pc = "done" /\ ~useXTEST /\ focus # window /\ display = "closed"
  /\ Len(KeyEvents) = 2 * Len(keypresses) /\ Len(keypresses) >= 2
  /\ moves = 1 /\ Len(str) = Len(keypresses)


IsClose(r) == r.op = "XCloseDisplay"
IsOpen(r) == r.op = "XOpenDisplay"

\* C6: a connection the call opened is closed exactly once before the caller
\* has control again, on every exit path, so no connection stays open between
\* calls; when the connection cannot be opened nothing is closed and the call
\* fails at once.
C6_ConnectionClosedOnce ==
  /\ openConns = (IF display = "open" THEN 1 ELSE 0)
  /\ closes = Count(xlog, IsClose) /\ closes <= 1
  /\ pc \in {"idle", "done"} => openConns = 0
  /\ (pc = "done" /\ display = "closed") =>
        /\ closes = 1 /\ Count(xlog, IsOpen) = 1
        /\ IsClose(xlog[Len(xlog)])
  /\ (pc = "done" /\ display = "NULL") =>
        /\ closes = 0
        /\ xlog = <<Call0("XOpenDisplay")>>
        /\ result = [status |-> "failure",
                     what |-> [kind |-> "open", a |-> 0, b |-> 0]]

\* C6 witness: the resolution-failure early return has closed the display
C6_Witness ==
  /\ pc = "done" /\ display = "closed" /\ closes = 1 /\ openConns = 0
  /\ result.status = "failure" /\ result.what.kind = "keycode"
  /\ Len(keypresses) = 2

\* C7 (as claimed): a call with an empty text succeeds and injects nothing,
\* whatever the state of the display server.
C7_EmptyTextAlwaysSucceeds ==
  (pc = "done" /\ str = <<>>) => (result.status = "success" /\ KeyEvents = <<>>)

\* C7 (amended): a call with an empty text never injects a key event; it
\* succeeds when the display connection opens, and fails with the
\* could-not-open text when it does not.
C7_EmptyTextSucceedsIfDisplayOpens ==
  (pc = "done" /\ str = <<>>) =>
     /\ KeyEvents = <<>>
     /\ display = "closed" => result = [status |-> "success", what |-> NoText]
     /\ display = "NULL" => result = [status |-> "failure",
                                      what |-> [kind |-> "open", a |-> 0, b |-> 0]]

\* C7 witness: a finished, successful call on the empty text
C7_Witness ==
  /\ pc = "done" /\ str = <<>> /\ display = "closed"
  /\ result.status = "success" /\ closes = 1

IsQuery(r) == r.op = "XQueryExtension"
IsXTestEvent(r) == r.op = "XTestFakeKeyEvent"
IsSendEvent(r) == r.op = "XSendEvent"
IsInstall(r) == r.op = "XSetErrorHandler"
PastSelection == pc \in {"inject", "flush", "return", "done"} /\ Count(xlog, IsInstall) >= 1

\* C8: in a call that asks the server for its capabilities: a forced fallback
\* sends every key by XSendEvent even when XTEST is advertised (this part holds
\* in every call); a preferred native strategy without advertised XTEST sends
\* every key by XSendEvent and the call succeeds unless the server raises an
\* error; XTestFakeKeyEvent is used only when XTEST is advertised and the
\* fallback is not forced.
C8_StrategySelection ==
  PastSelection =>
    /\ method = "ATMETHOD_XSENDKEYS" => (~useXTEST /\ Count(xlog, IsXTestEvent) = 0)
    /\ Count(xlog, IsQuery) = 1 =>
         /\ (method # "ATMETHOD_XSENDKEYS" /\ ~xtestAdvertised) =>
               /\ ~useXTEST /\ Count(xlog, IsXTestEvent) = 0
               /\ (pc = "done" /\ errs = 0) => result.status = "success"
         /\ (useXTEST \/ Count(xlog, IsXTestEvent) > 0) =>
               (xtestAdvertised /\ method # "ATMETHOD_XSENDKEYS")
    /\ useXTEST => Count(xlog, IsSendEvent) = 0
    /\ ~useXTEST => Count(xlog, IsXTestEvent) = 0

\* C8 witness: the fallback was forced, the server advertises XTEST, and the
\* keys went out by XSendEvent
C8_Witness ==
  /\ pc = "done" /\ method = "ATMETHOD_XSENDKEYS" /\ xtestAdvertised
  /\ Count(xlog, IsQuery) = 1
  /\ Count(xlog, IsSendEvent) = 4 /\ result.status = "success"


PastResolution == pc \in {"inject", "flush", "return", "done"} /\ display # "NULL"
ReachedInjection == Count(xlog, IsInstall) >= 1

\* C9: the outcome of the resolution pass of a call on str is the outcome of
\* the conversion loop on str without its vertical tabs: the same keypresses,
\* the same decision to inject or to abort, the same error text; the call then
\* injects the key codes of the stripped input or, on abort, nothing. A
\* vertical tab adds no keypress and is never the character an error names.
C9_VerticalTabTransparent ==
  PastResolution =>
    LET r == Resolve(StripVT(str), <<>>) IN
      /\ keypresses = r.keypresses
      /\ Len(keypresses) <= Len(StripVT(str))
      /\ r.ok <=> ReachedInjection
      /\ ~r.ok => /\ atGlobals = [error_detected |-> TRUE, errorString |-> r.text]
                  /\ r.text.a # VT
                  /\ KeyEvents = <<>>
                  /\ pc = "done" => result = [status |-> "failure", what |-> r.text]
      /\ (r.ok /\ pc = "done" /\ errs = 0) =>
            /\ result.status = "success"
            /\ Codes(SelectSeq(xlog, IsTargetPress))
                 = [i \in 1..Len(r.keypresses) |-> r.keypresses[i].code]

\* C9 witness: a finished successful call whose input held vertical tabs at
\* both ends of a typed character
C9_Witness ==
  /\ pc = "done" /\ str = <<VT, 65, VT>> /\ result.status = "success"
  /\ Len(keypresses) = 1 /\ Count(xlog, IsTargetPress) = 1

\* C10: when ErrorHandler has run during the injection pass, the call ends in
\* failure with the text the handler recorded, and the key events sent before
\* the error are still the delivered ones: the requests of a call are never
\* taken back.
C10_ProtocolErrorReported ==
  /\ []((injectErr /\ pc = "done") =>
          /\ result.status = "failure"
          /\ result.what.kind = "xerror"
          /\ result.what = atGlobals.errorString
          /\ Count(xlog, IsTargetPress) >= 1
          /\ IsPrefix(Codes(SelectSeq(xlog, IsTargetPress)), ExpectedCodes(str)))
  /\ [][pc' # "idle" => IsPrefix(xlog, xlog')]_vars

\* C10 witness: the handler ran after the first of three keypresses; the call
\* failed and the first key stays injected
C10_Witness ==
  /\ pc = "done" /\ injectErr /\ result.status = "failure"
  /\ Len(keypresses) = 3 /\ Count(xlog, IsTargetPress) = 1


\* C11 (as claimed): every error the server raises for a request of the
\* injection pass is read by the call's own handler and makes that call fail;
\* none reaches another handler after the call's handler was removed.
C11_EveryServerErrorReported ==
  (pc = "done" /\ errs > 0) =>
     /\ result.status = "failure" /\ result.what.kind = "xerror"
     /\ stray = 0


\* C12: the error slot never carries over between calls. Whatever the earlier
\* calls left in it, a call whose connection opens, whose text resolves and
\* whose requests raise no error returns success, and a failing call reports
\* the message of its own failure: the open failure, the failure of its own
\* resolution pass, or an error the server raised for one of its own requests.
OwnFailureTexts ==
  IF display = "NULL" THEN {OpenFailText(NoError).errorString}
  ELSE IF ~Resolve(str, <<>>).ok THEN {Resolve(str, <<>>).text}
  ELSE IF errs > 0
       THEN {ErrorHandlerCall(NoError, e).errorString : e \in ServerErrors(useXTEST)}
       ELSE {}

C12_NoCarryOver ==
  pc = "done" =>
     /\ (display # "NULL" /\ Resolve(str, <<>>).ok /\ errs = 0)
           => result = [status |-> "success", what |-> NoText]
     /\ result.status = "failure" => result.what \in OwnFailureTexts

C12_Witness ==
  /\ pc = "done" /\ entryFlag
  /\ Len(str) > 0 /\ Len(keypresses) = Len(str)
  /\ result.status = "success"


\* C13 (as claimed): every text of printable ASCII characters whose connection
\* opens and whose requests raise no error succeeds with one keypress per
\* character.
IsPrintableAscii(s) == \A i \in 1..Len(s) : s[i] \in 32..126
HasKeycodes(s) == \A i \in 1..Len(s) : XKeysymToKeycode(wchar2keysym(s[i])) # 0

C13_PrintableAsciiAlwaysSucceeds ==
  (pc = "done" /\ display # "NULL" /\ errs = 0 /\ IsPrintableAscii(str)) =>
     /\ result.status = "success"
     /\ Len(keypresses) = Len(str)

\* C13 (amended): each printable ASCII character resolves to the keysym equal to
\* its code point; when the connection opens, the keyboard mapping holds a key
\* code for every character of the text and no request raises an error, the
\* call succeeds with one keypress per character, in the order of the text.
C13_PrintableAsciiResolves ==
  /\ \A wc \in 32..126 : wchar2keysym(wc) = wc
  /\ (pc = "done" /\ display # "NULL" /\ errs = 0 /\ IsPrintableAscii(str)
        /\ HasKeycodes(str)) =>
       /\ result.status = "success"
       /\ Len(keypresses) = Len(str)
       /\ \A i \in 1..Len(str) : keypresses[i].code = XKeysymToKeycode(str[i])

C13_Witness ==
  /\ pc = "done" /\ display # "NULL" /\ errs = 0
  /\ Len(str) = AsciiLen /\ str[1] = 32 /\ HasKeycodes(str)
  /\ result.status = "success" /\ Len(keypresses) = Len(str)


\* C14: every code point from 0x7F to 0x9F and every code point above 0x10FFFF
\* fails symbolic-key resolution (wchar2keysym answers NoSymbol).
Resolved(wc) == fn.done /\ fn.name = "wchar2keysym" /\ fn.arg = <<wc>>

C14_GapAndOutOfRangeFail ==
  \A wc \in CodePoints :
     (Resolved(wc) /\ (wc \in 127..159 \/ wc > 1114111)) => fn.value = NoSymbol

\* C19: tab, carriage return, line feed, backspace, delete and escape resolve
\* to Tab, Return, Linefeed, BackSpace, Delete and Escape, none of them to the
\* keysym equal to its own code point.
NamedControlKey ==
  (9 :> XK_Tab) @@ (13 :> XK_Return) @@ (10 :> XK_Linefeed)
  @@ (8 :> XK_BackSpace) @@ (127 :> XK_Delete) @@ (27 :> XK_Escape)

C19_NamedControlKeys ==
  \A wc \in DOMAIN NamedControlKey :
     Resolved(wc) => fn.value = NamedControlKey[wc] /\ fn.value # wc

\* C20 (as claimed): resolution fails only for 0x7F..0x9F and above 0x10FFFF;
\* every other code point that is neither printable Latin-1 nor a named control
\* character resolves to its table entry or to 0x01000000 | code point.
UnicodeKeysym(wc) ==
  IF unicode2keysym(wc) # NoSymbol THEN unicode2keysym(wc) ELSE wc + 16777216

IsPrintableLatin1(wc) == wc \in 32..126 \/ wc \in 160..255

C20_FailsOnlyInGapOrOutOfRange ==
  \A wc \in CodePoints :
     (Resolved(wc) /\ ~(wc \in 127..159) /\ ~(wc > 1114111)
       /\ ~IsPrintableLatin1(wc) /\ wc \notin DOMAIN NamedControlKey)
     => fn.value # NoSymbol /\ fn.value = UnicodeKeysym(wc)

\* C20 (amended): resolution also fails for the code points below 0x20 that are
\* not tab, carriage return, line feed, backspace or escape, and it fails above
\* 0x10FFFF; every code point from 0x100 to 0x10FFFF resolves to its table
\* entry when one exists and otherwise to 0x01000000 | code point.
IsUnnamedControl(wc) == wc < 32 /\ wc \notin {9, 13, 10, 8, 27}

C20_ResolutionFailures ==
  \A wc \in CodePoints :
     Resolved(wc) =>
       /\ (IsUnnamedControl(wc) \/ wc > 1114111) => fn.value = NoSymbol
       /\ wc \in 256..1114111 =>
            fn.value # NoSymbol /\ fn.value = UnicodeKeysym(wc)

C20_Witness == Resolved(256) /\ fn.value = 16777472


\* C15: modifier resolution returns the candidate combination at the smallest
\* index of the key code's symbol list that holds the target: index 0 gives no
\* modifier, index 1 (a shifted letter such as 'A') gives exactly the shift
\* bit, and an unshifted letter such as 'a' gives a set without the shift bit.
\* The candidates of this keyboard are none, Shift, Mod5 and Shift+Mod5; a
\* target whose smallest index lies past the last candidate gets no modifier.
ExpectedCandidates == <<0, ShiftMask, 128, 129>>

FirstIndex(code, sym) ==
  LET symlist == XGetKeyboardMapping(code)
      found == {i \in 1..Len(symlist) : symlist[i] = sym}
  IN IF found = {} THEN 0 ELSE SetMin(found)

Modifiers(code, sym) ==
  fn.done /\ fn.name = "CalcModifiersForKeysym" /\ fn.arg = <<code, sym>>

C15_SmallestIndexWins ==
  \A code \in KeyCodes, sym \in KeySyms :
     Modifiers(code, sym) =>
       /\ FirstIndex(code, sym) \in 1..Len(ExpectedCandidates)
            => fn.value = ExpectedCandidates[FirstIndex(code, sym)]
       /\ FirstIndex(code, sym) \notin 1..Len(ExpectedCandidates) => fn.value = 0
       /\ FirstIndex(code, sym) = 1 => fn.value = 0
       /\ FirstIndex(code, sym) = 2 => fn.value = ShiftMask
       /\ (code = 38 /\ sym = 65) => fn.value = ShiftMask
       /\ (code = 38 /\ sym = 97) => BitAnd(fn.value, ShiftMask) = 0

C15_Witness == Modifiers(10, 33) /\ fn.value = ShiftMask


\* C16 (as claimed): within one call the error slot keeps the first protocol
\* error: a step in which the handler is handed errors leaves a slot that
\* already holds an error unchanged, and fills an empty slot with the first.
HandlerRuns == handler = "ErrorHandler" /\ pc \in {"flush", "inject"}
                 /\ Len(pending') < Len(pending)
XErrorText(ev) == [kind |-> "xerror", a |-> ev.request_code, b |-> ev.error_code]
LastHandled == pending[Len(pending) - Len(pending')]

IsProtocolRequest(r) ==
  r.op \in {"XGetInputFocus", "XKeysymToKeycode", "XQueryExtension",
            "XTestGrabControl", "XTestFakeKeyEvent", "XSendEvent", "XSync"}
IsInjectionRequest(r) ==
  \/ r.op \in {"XQueryExtension", "XTestGrabControl", "XTestFakeKeyEvent",
               "XSendEvent", "XSync"}
  \/ r.op = "XKeysymToKeycode" /\ r.sym = XK_Shift_L
HandlerCallsBefore(i) == Count(SubSeq(xlog, 1, i - 1), IsInstall)

C18_HandlerBeforeFirstRequest ==
  \A i \in 1..Len(xlog) : IsProtocolRequest(xlog[i]) => HandlerCallsBefore(i) >= 1

\* C18 (amended): the handler is installed after the resolution pass and before
\* the first request of the injection pass. The focus query and the
\* keysym-to-keycode queries of the resolution pass are sent before any
\* XSetErrorHandler; the extension query, every key event and the final
\* synchronisation are sent after the installing XSetErrorHandler and before
\* the removing one, and the handler is the call's while the pass runs.
C18_HandlerCoversInjection ==
  /\ \A i \in 1..Len(xlog) :
        /\ IsInjectionRequest(xlog[i]) => HandlerCallsBefore(i) = 1
        /\ (IsProtocolRequest(xlog[i]) /\ ~IsInjectionRequest(xlog[i]))
             => HandlerCallsBefore(i) = 0
  /\ pc \in {"inject", "flush"} => handler = "ErrorHandler"

C18_Witness ==
  /\ pc = "flush" /\ handler = "ErrorHandler"
  /\ Count(xlog, IsKeyEvent) >= 2
  /\ \E i \in 1..Len(xlog) : IsLookup(xlog[i]) /\ HandlerCallsBefore(i) = 0


\* C17: the virtual-keyboard buffer is inserted into the last-focused edit
\* field only in answer to PWS_MSG_INSERTBUFFER; no other message, a WM_DRAWITEM
\* for a control other than IDC_SD_TOGGLE included, runs the inserting branch.
C17_InsertOnlyOnInsertBuffer ==
  dlg.inserted => dlg.uMsg = "PWS_MSG_INSERTBUFFER"


\* C21: under the native strategy each resolved keypress gives this order of
\* fake key events: the press of the physical shift key first when the
\* modifier set holds the shift bit, the press of the target key code and at
\* once its release, then the release of shift when it was pressed; without
\* the shift bit no shift event is sent.
Stroke(r) == <<r.keycode, r.press>>
Strokes(evs) == [i \in 1..Len(evs) |-> Stroke(evs[i])]
ShiftKeyCode == XKeysymToKeycode(XK_Shift_L)
NativeStrokes(kp) ==
  IF BitAnd(kp.state, ShiftMask) # 0
  THEN <<<<ShiftKeyCode, 1>>, <<kp.code, 1>>, <<kp.code, 0>>, <<ShiftKeyCode, 0>>>>
  ELSE <<<<kp.code, 1>>, <<kp.code, 0>>>>
RECURSIVE NativeStrokesOf(_)
NativeStrokesOf(kps) ==
  IF kps = <<>> THEN <<>> ELSE NativeStrokes(Head(kps)) \o NativeStrokesOf(Tail(kps))
\* keypresses handed to the key-send function so far
Sent == IF pc \in {"flush"} THEN itr ELSE itr - 1

C21_NativeEventOrder ==
  (PastSelection /\ useXTEST) =>
     /\ Strokes(KeyEvents) = NativeStrokesOf(SubSeq(keypresses, 1, Sent))
     /\ \A i \in 1..Len(xlog) : ~IsSendEvent(xlog[i])

C21_Witness ==
  /\ pc = "done" /\ useXTEST /\ Len(keypresses) = 2
  /\ keypresses[1].state = ShiftMask /\ keypresses[2].state = 0
  /\ Len(KeyEvents) = 6


\* C22: under the fallback strategy each resolved keypress gives exactly one
\* key-down event followed by one key-up event, both addressed to the window
\* recorded when the connection was opened, both carrying the resolved
\* modifier set as event state; no separate modifier key event is sent.
SentEvent(r) == <<r.keycode, r.press, r.state, r.window>>
FallbackEvents(kp) ==
  <<<<kp.code, 1, kp.state, window>>, <<kp.code, 0, kp.state, window>>>>
RECURSIVE FallbackEventsOf(_)
FallbackEventsOf(kps) ==
  IF kps = <<>> THEN <<>> ELSE FallbackEvents(Head(kps)) \o FallbackEventsOf(Tail(kps))

C22_FallbackEventPairs ==
  (PastSelection /\ ~useXTEST) =>
     /\ [i \in 1..Len(KeyEvents) |-> SentEvent(KeyEvents[i])]
          = FallbackEventsOf(SubSeq(keypresses, 1, Sent))
     /\ \A i \in 1..Len(xlog) : ~IsXTestEvent(xlog[i])
     /\ \A i \in 1..Len(KeyEvents) :
          KeyEvents[i].keycode \notin {Modmap[j] : j \in 1..Len(Modmap)}

C22_Witness ==
  /\ pc = "done" /\ ~useXTEST /\ Len(keypresses) = 2
  /\ keypresses[1].state = ShiftMask /\ keypresses[2].state = 128
  /\ Len(KeyEvents) = 4 /\ KeyEvents[3].state = 128
  /\ focus # window


\* C23: under either strategy every modifier bit of the resolved keypress's
\* modifier set (shift and any extra level-shift bit) is in effect when the
\* press of the target key is synthesized. An XSendEvent key event is in
\* effect with the state it carries; a fake key event of XTEST is in effect
\* with the modifier keys that are held down when it is sent.
ModBits(mask) == {b \in 0..7 : BitAnd(mask, 2 ^ b) # 0}
FakePresses(kc, i) ==
  Cardinality({k \in 1..(i - 1) : IsXTestEvent(xlog[k]) /\ xlog[k].keycode = kc
                                   /\ xlog[k].press = 1})
FakeReleases(kc, i) ==
  Cardinality({k \in 1..(i - 1) : IsXTestEvent(xlog[k]) /\ xlog[k].keycode = kc
                                   /\ xlog[k].press = 0})
HeldBits(i) ==
  {j - 1 : j \in {r \in 1..Len(Modmap) :
                    Modmap[r] # 0 /\ FakePresses(Modmap[r], i) > FakeReleases(Modmap[r], i)}}
BitsInEffect(i) ==
  IF IsSendEvent(xlog[i]) THEN ModBits(xlog[i].state) ELSE HeldBits(i)
TargetPresses == {i \in 1..Len(xlog) : IsTargetPress(xlog[i])}
\* the keypress that the target press at position i of the log belongs to
KeypressOf(i) == keypresses[Cardinality({k \in TargetPresses : k <= i})]

C23_ModifiersInEffect ==
  PastSelection =>
    \A i \in TargetPresses : ModBits(KeypressOf(i).state) \subseteq BitsInEffect(i)


\* C24: the candidate list starts with [none, shift]; each extra level-shift
\* modifier found in the modifier map (Mode_switch first, then
\* ISO_Level3_Shift) is appended after all existing entries, as every existing
\* entry with the new bit added, and only when that bit is not yet in the
\* list; so the list has 2, 4 or 8 entries, no duplicate, none before shift
\* and both before every extra-shift combination.
HoldsSymbol(kc, sym) ==
  kc \in DOMAIN Keymap /\ \E j \in 1..Len(Keymap[kc]) : Keymap[kc][j] = sym
\* the first of the rows Mod1..Mod5 (3..7) whose key holds sym, 0 when none does
LevelShiftRow(modmap, sym) ==
  IF \E r \in 3..7 : HoldsSymbol(modmap[r + 1], sym)
  THEN SetMin({r \in 3..7 : HoldsSymbol(modmap[r + 1], sym)}) ELSE 0
WithBit(list, r) == list \o [i \in 1..Len(list) |-> list[i] + 2 ^ r]
ExpectedMasks(modmap) ==
  LET m1 == LevelShiftRow(modmap, XK_Mode_switch)
      m2 == LevelShiftRow(modmap, XK_ISO_Level3_Shift)
      l1 == IF m1 # 0 THEN WithBit(<<0, ShiftMask>>, m1) ELSE <<0, ShiftMask>>
  IN IF m2 # 0 /\ m2 # m1 THEN WithBit(l1, m2) ELSE l1

C24_CandidateList ==
  (fn.done /\ fn.name = "CandidateMasks") =>
     /\ fn.value = ExpectedMasks(fn.arg)
     /\ Len(fn.value) \in {2, 4, 8}
     /\ fn.value[1] = 0 /\ fn.value[2] = ShiftMask
     /\ \A i, j \in 1..Len(fn.value) : i # j => fn.value[i] # fn.value[j]
     /\ \A i \in 3..Len(fn.value) : fn.value[i] > ShiftMask

C24_Witness ==
  /\ fn.done /\ fn.name = "CandidateMasks"
  /\ fn.arg = <<50, 0, 0, 0, 93, 0, 0, 92>>
  /\ fn.value = <<0, 1, 16, 17, 128, 129, 144, 145>>


\* C25: modifier resolution never fails a request. A character whose symbol
\* no candidate position of its key code holds is resolved with the empty
\* modifier set, counts as resolved, and is injected like any other; a key
\* code without symbol list gives the empty set too.
Unmatched(c) ==
  FirstIndex(XKeysymToKeycode(wchar2keysym(c)), wchar2keysym(c))
    \notin 1..Len(CandidateMasks)

C25_UnmatchedStillInjected ==
  /\ \A sym \in KeySyms : CalcModifiersForKeysym(9, sym) = 0
  /\ (PastSelection /\ HasKeycodes(str)) =>
       /\ Len(keypresses) = Len(str)
       /\ \A i \in 1..Len(str) :
            /\ keypresses[i].code = XKeysymToKeycode(wchar2keysym(str[i]))
            /\ Unmatched(str[i]) => keypresses[i].state = 0
  /\ (pc = "done" /\ display # "NULL" /\ HasKeycodes(str) /\ errs = 0) =>
       /\ result.status = "success"
       /\ Count(xlog, IsTargetPress) = Len(str)

C25_Witness ==
  /\ pc = "done" /\ str = <<97, 8364>> /\ Unmatched(8364)
  /\ result.status = "success"
  /\ keypresses[2] = [code |-> 24, state |-> 0]
  /\ Count(xlog, IsTargetPress) = 2


\* C27 (as claimed): in every call of a sequence of calls the native path is
\* used exactly when the server reached in that call advertises XTEST and the
\* fallback is not forced, whatever an earlier call observed.
C27_StrategyFromThisCallsServer ==
  PastSelection =>
    (useXTEST <=> (xtestAdvertised /\ method # "ATMETHOD_XSENDKEYS"))

\* C27 (amended): the capability is asked of the server once in the life of
\* the process, in the first call that reaches the choice of strategy, and the
\* answer is kept: in every call the native path is used exactly when that
\* first answer was yes and the fallback is not forced; what the server of a
\* later call advertises has no effect and is not asked.
C27_StrategyFromFirstAnswer ==
  /\ [](PastSelection =>
          /\ UseXTest_static.checked = 1
          /\ useXTEST <=> (UseXTest_static.useXTest /\ method # "ATMETHOD_XSENDKEYS")
          /\ Count(xlog, IsQuery) <= 1
          /\ Count(xlog, IsQuery) = 1 => UseXTest_static.useXTest = xtestAdvertised)
  /\ [][UseXTest_static.checked = 1 =>
          /\ UseXTest_static' = UseXTest_static
          /\ Count(xlog', IsQuery) <= Count(xlog, IsQuery)]_vars

C27_Witness ==
  /\ pc = "done" /\ useXTEST /\ ~xtestAdvertised
  /\ Count(xlog, IsQuery) = 0 /\ Count(xlog, IsXTestEvent) >= 2


\* C28: the injection pass starts no further keypress once the error flag is
\* set: from the moment the handler has recorded a protocol error no key event
\* is sent any more in the call, and a pass that ends with the flag clear has
\* pressed every resolved keypress.
C28_NoKeypressAfterError ==
  /\ []((pc \in {"return", "done"} /\ PastSelection /\ ~atGlobals.error_detected)
          => Count(xlog, IsTargetPress) = Len(keypresses))
  /\ [][(pc \in {"inject", "flush"} /\ atGlobals.error_detected)
          => Count(xlog', IsKeyEvent) <= Count(xlog, IsKeyEvent)]_vars

C28_Witness ==
  /\ pc = "done" /\ atGlobals.error_detected /\ injectErr
  /\ Len(keypresses) = 2 /\ Count(xlog, IsTargetPress) = 1

\* ---- the thread of the secure desktop
Returned == thr.pc = "returned"
HoldsPhrase(g) ==
  g.bPhraseEntered \/ g.bNewPhraseEntered \/ g.sPhrase # 0 \/ g.sNewPhrase # 0

\* C26: when ThreadProc returns a result other than IDOK (cancel, toggle of
\* the secure desktop, failure), the shared GetMasterPhrase result holds no
\* phrase: both phrase-entered flags are false and both phrases are empty
C26_NoPhraseUnlessOK ==
  (Returned /\ thr.ret # "IDOK") => ~HoldsPhrase(thr.m_pGMP)

\* the resources in reverse order of acquisition, each with its release call
ReverseAcquisition ==
  << "VIRTUALKEYBOARDCREATED", "MASTERPHRASEDIALOGCREATED",
     "BACKGROUNDWINDOWCREATED", "REGISTEREDWINDOWCLASS", "SWITCHEDDESKTOP",
     "SETTHREADDESKTOP", "NEWDESKTOCREATED" >>
ReleaseCall(flag) ==
  CASE flag = "VIRTUALKEYBOARDCREATED" -> ApiCall("delete", "m_pVKeyBoardDlg", "ignored")
    [] flag = "MASTERPHRASEDIALOGCREATED" ->
         ApiCall("DestroyWindow", "m_hwndMasterPhraseDlg", "ignored")
    [] flag = "BACKGROUNDWINDOWCREATED" -> ApiCall("DestroyWindow", "m_hwndBkGnd", "ignored")
    [] flag = "REGISTEREDWINDOWCLASS" ->
         ApiCall("UnregisterClass", "m_sBkGrndClassName", "ignored")
    [] flag = "SWITCHEDDESKTOP" -> ApiCall("SwitchDesktop", "m_hOriginalDesk", "ignored")
    [] flag = "SETTHREADDESKTOP" -> ApiCall("SetThreadDesktop", "m_hOriginalDesk", "ignored")
    [] flag = "NEWDESKTOCREATED" -> ApiCall("CloseDesktop", "m_hNewDesktop", "ignored")
FlagIsSet(flag) == flag \in thr.xFlags
DueReleases == SelectSeq(ReverseAcquisition, FlagIsSet)

\* C29: a return through BadExit makes a release attempt for exactly the
\* resources whose progress flag is set at that moment, in reverse order of
\* acquisition (virtual keyboard, dialog, background window, window class,
\* input-desktop switch, thread desktop, new desktop), and every resource that
\* was created and not released is among them
C29_BadExitReleases ==
  /\ \A i \in 1..Len(SetupSteps) :
        ReverseAcquisition[i] = SetupSteps[Len(SetupSteps) + 1 - i].flag
  /\ (Returned /\ thr.exit = "BadExit") =>
        /\ thr.released = [i \in 1..Len(DueReleases) |-> ReleaseCall(DueReleases[i])]
        /\ \A r \in thr.held :
              \E i \in 1..Len(thr.released) : thr.released[i] = ReleaseCall(r)

\* a teardown call failed after the dialog and the keyboard were released: the
\* five resources left are released again by BadExit
C29_Witness ==
  /\ Returned /\ thr.exit = "BadExit"
  /\ "MASTERPHRASEDIALOGENDED" \in thr.xFlags
  /\ Len(thr.released) = 5 /\ thr.held # {}

CallsOf(op, arg) ==
  {i \in 1..Len(thr.calls) : thr.calls[i].op = op /\ thr.calls[i].arg = arg}
SwitchedToNew ==
  {i \in CallsOf("SwitchDesktop", "m_hNewDesktop") : thr.calls[i].ok = "ok"}

\* C30: when ThreadProc has switched the input desktop to the new desktop, it
\* calls before its return SwitchDesktop to the original desktop, then
\* SetThreadDesktop to the original desktop, and CloseDesktop of the new one
\* only after both; in the setup SetThreadDesktop to the new desktop precedes
\* SwitchDesktop to it
C30_DesktopOrder ==
  /\ \A s \in CallsOf("SwitchDesktop", "m_hNewDesktop") :
        \E i \in CallsOf("SetThreadDesktop", "m_hNewDesktop") :
           i < s /\ thr.calls[i].ok = "ok"
  /\ (Returned /\ SwitchedToNew # {}) =>
        /\ \E i \in CallsOf("SwitchDesktop", "m_hOriginalDesk"),
              j \in CallsOf("SetThreadDesktop", "m_hOriginalDesk"),
              k \in CallsOf("CloseDesktop", "m_hNewDesktop") :
              /\ \A s \in SwitchedToNew : s < i
              /\ i < j /\ j < k
        /\ \A k \in CallsOf("CloseDesktop", "m_hNewDesktop") :
              \E i \in CallsOf("SwitchDesktop", "m_hOriginalDesk"),
                 j \in CallsOf("SetThreadDesktop", "m_hOriginalDesk") :
                 i < j /\ j < k

\* the switch back succeeded, SetThreadDesktop back failed, and BadExit made
\* the call again before it closed the new desktop
C30_Witness ==
  /\ Returned /\ thr.exit = "BadExit" /\ SwitchedToNew # {}
  /\ \E i \in CallsOf("SetThreadDesktop", "m_hOriginalDesk") :
        thr.calls[i].ok = "failed"
  /\ CallsOf("CloseDesktop", "m_hNewDesktop") # {}

\* ---- the end of a call
CallEnded == pc \in {"return", "done"} /\ PastSelection
PressedCodes == {KeyEvents[i].keycode : i \in 1..Len(KeyEvents)}
EventsOf(code, press) ==
  {i \in 1..Len(KeyEvents) : KeyEvents[i].keycode = code /\ KeyEvents[i].press = press}

\* C33: at the end of a call under the native strategy every key the call
\* pressed, target key or shift key, has been released: for each key code the
\* press events and the release events are equal in number, each press is
\* followed by a release, also when the pass stopped early on a protocol error
C33_KeysReleased ==
  (CallEnded /\ useXTEST) =>
     \A code \in PressedCodes :
        LET presses == EventsOf(code, 1)
            releases == EventsOf(code, 0)
        IN /\ Cardinality(presses) = Cardinality(releases)
           /\ \A i \in presses : \E j \in releases : i < j

\* a call of two keypresses whose first, a shifted one, raised an error: the
\* pass stopped with the shift key and the target key pressed and released
C33_Witness ==
  /\ CallEnded /\ useXTEST /\ atGlobals.error_detected
  /\ Len(keypresses) = 2 /\ Len(KeyEvents) = 4
  /\ Strokes(KeyEvents) = NativeStrokes(keypresses[1])
  /\ BitAnd(keypresses[1].state, ShiftMask) # 0

\* ---- pacing
IsSleep(r) == r.op = "sleep_ms"
TargetPressAt == {i \in 1..Len(xlog) : IsTargetPress(xlog[i])}
SleepsBetween(i, j) == {k \in (i + 1)..(j - 1) : IsSleep(xlog[k])}
Consecutive(at, i, j) ==
  i \in at /\ j \in at /\ i < j /\ \A k \in (i + 1)..(j - 1) : k \notin at
\* the key events a call sends for its keypresses, whatever its delay
EventsFor(native, kps) ==
  IF native THEN NativeStrokesOf(kps)
  ELSE [i \in 1..(2 * Len(kps)) |-> <<kps[(i + 1) \div 2].code, i % 2>>]

\* C35: between the injection of two consecutive keypresses of a call there
\* is one sleep, of the delay the caller gave, under either strategy; the
\* events of a call and their order are fixed by its keypresses and its
\* strategy alone, with a delay of 0 as with any other
C35_PacingBetweenKeys ==
  PastSelection =>
     /\ LET at == TargetPressAt
        IN \A i \in at, j \in at :
              Consecutive(at, i, j) =>
                 LET sleeps == SleepsBetween(i, j)
                 IN /\ Cardinality(sleeps) = 1
                    /\ \A k \in sleeps : xlog[k].state = delayMS
     /\ \A k \in 1..Len(xlog) : IsSleep(xlog[k]) => xlog[k].state = delayMS
     /\ Strokes(KeyEvents) = EventsFor(useXTEST, SubSeq(keypresses, 1, Sent))

\* a call with delay 0 that injected two keypresses
C35_Witness ==
  /\ pc = "done" /\ delayMS = 0 /\ ~atGlobals.error_detected
  /\ Cardinality(TargetPressAt) = 2
  /\ Count(xlog, IsSleep) = 2

\* ---- flushing
IsFlushOrSync(r) == r.op \in {"XFlush", "XSync"}
KeyEventAt == {i \in 1..Len(xlog) : IsKeyEvent(xlog[i])}

\* C36: when a call ends, under the native and under the fallback strategy,
\* a flush or sync request was issued after the last injected key event: no
\* key event of the call is without a later XFlush or XSync
C36_FlushedBeforeReturn ==
  CallEnded =>
     \A i \in KeyEventAt : \E k \in (i + 1)..Len(xlog) : IsFlushOrSync(xlog[k])

\* a native call that injected a key: the XFlush of XTest_SendKeyEvent is the
\* only flush of the call
C36_Witness ==
  /\ CallEnded /\ useXTEST /\ KeyEventAt # {}
  /\ Count(xlog, IsFlushOrSync) = 1

\* ---- the text of the error
\* C37: the text the error handler records holds the numeric error code of
\* the reported error together with the description of that same error code
C37_TextNamesErrorCode ==
  atGlobals.errorString.kind = "xerror" =>
     atGlobals.errorString.a = atGlobals.errorString.b

\* ---- the keyed hash
\* RFC 2104: H((K0 ^ opad) || H((K0 ^ ipad) || data)), K0 the key, hashed
\* first when longer than the block, padded with zeros to the block
RFC2104(key, data) ==
  LET K0 == IF Len(key) > BLOCKSIZE
            THEN Digest(LitSeq(key)) \o Zeros(BLOCKSIZE - HASHLEN)
            ELSE LitSeq(key) \o Zeros(BLOCKSIZE - Len(key))
  IN Digest(XorAll(K0, 92) \o Digest(XorAll(K0, 54) \o LitSeq(data)))

\* C34: after any sequence of Init, Update and Final on one HMAC object, the
\* digest written by Final is the RFC 2104 HMAC of the key given to the most
\* recent Init and the data of the Updates since that Init
C34_DigestIsHmac ==
  (mac.last = "Final" /\ mac.keyed) => mac.digest = RFC2104(mac.key, mac.data)

\* ---- the OK button
\* the checks of case IDOK on what it read
Validated(r, id) ==
  /\ r.sxPassKey # 0
  /\ id = "IDD_SDKEYCHANGE" =>
        r.rc = "SUCCESS" /\ r.sxNewPassKey1 # 0 /\ r.sxNewPassKey1 = r.sxNewPassKey2
  /\ id = "IDD_SDPASSKEYSETUP" => r.sxPassKey = r.sxNewPassKey1
\* the dialog procedure handled the OK button in this step
OKHandled == thr.pc = "loop" /\ ~thr.quit /\ thr'.pc = "loop" /\ thr'.cmd = "IDOK"

C31_NoTimerAfterQuit ==
  tmr.pc \in AfterQuit =>
     /\ tmr.cb = "none" /\ ~tmr.queued
     /\ tmr.touched \cap {"destroying", "destroyed"} = {}

====
